---------------------------- MODULE Spec2Model ----------------------------
(***************************************************************************)
(* A model of the request loops of the openrouteservice example notebooks. *)
(* The notebooks are independent scripts: a behaviour evaluates one of     *)
(* them, chosen in Init (variable nb), cell by cell in source order.  The  *)
(* remote services (openrouteservice, Overpass) are the environment: each  *)
(* call either returns a response drawn from a bounded set or raises.      *)
(***************************************************************************)
EXTENDS Integers, Sequences, FiniteSets

(***************************************************************************)
(* Bounds of the model.                                                    *)
(***************************************************************************)
MaxFacilities == 41
MaxFailures == 2
MaxPlaces == 3
MaxPhysicians == 11
MaxTweets == 2
MaxJobs == 2
MaxDistricts == 2
MaxPieces == 2
MaxPopulation == 1
MaxPois == 2
MaxPubs == 4
MaxEdges == 3
MaxHospitals == 1
MaxStarts == 3

(***************************************************************************)
(* Program constants.                                                      *)
(***************************************************************************)
\* Health_Care_Access_Madagascar.py:201 and :240, len(iso) % 39
SleepEvery == 39
\* Ahrtal-Avoid-Areas-Isochrones.py:200 and :273, range(0, len(physicians), 5)
GroupSize == 5
\* Ahrtal-Avoid-Areas-Isochrones.py:275, physicians.loc[start:start+4]
LocLast == 4
\* Routing_Optimization_Idai.py:149, service=1200
Service == 1200
\* Routing_Optimization_Idai.py:137, time_window=[1553241600, 1553284800]
WindowStart == 1553241600
WindowEnd == 1553284800
\* Routing_Optimization_Idai.py:136, capacity=[300]
Capacity == 300
\* Routing_Optimization_Idai.py:130, for idx in range(3)
NumVehicles == 3

VARIABLES
    nb,                 \* the notebook being evaluated
    \* ---- Health_Care_Access_Madagascar.py
    mad_pc,             \* "car", "foot" (the two request loops), "done"
    num_facilities,     \* len(facilities_dictionary); its keys are 1..num_facilities
    facility_idx,       \* position of the for loop in facilities_dictionary.keys()
    request_counter,    \* request_counter
    iso_car,            \* len(iso_car): the list holds one opaque shape per success
    iso_foot,           \* len(iso_foot)
    mad_requests,       \* [profile -> [facility -> calls of ors.isochrones for it]]
    since_sleep,        \* calls of ors.isochrones in this loop since its last time.sleep(60)
    last_window,        \* calls of ors.isochrones between the latest time.sleep(60) and
                        \* the one before it (or the start of the loop); 0 before any
    sleeps,             \* calls of time.sleep(60) so far
    mad_failures,       \* iterations that ended in the except branch so far
    mad_printed,        \* the lines printed after the loops
    \* ---- Ahrtal-Avoid-Areas.py
    ahr_pc,             \* "loop", "done", "aborted" (an exception left the cell)
    num_places,         \* len(affected_places); its rows are 1..num_places
    place_idx,          \* position of the for loop in affected_places.iterrows()
    normal_routes,      \* normal_routes, each data frame named by its place
    avoiding_routes,    \* avoiding_routes, likewise
    ahr_requests,       \* [scenario -> [place -> calls of ors_client.directions for it]]
    flood_failed,       \* places whose after-flood request raised ApiError
    ahr_printed,        \* the lines printed by the loop
    \* ---- Ahrtal-Avoid-Areas-Isochrones.py
    iso_pc,             \* "first", "second" (the two physician loops), "done", "aborted"
    iso_entered,        \* the physician loops entered so far
    physicians,         \* the physicians frame: rows [label, id], label the index
    start,              \* start of the loop at hand: range(0, len(physicians), 5)
    normal_isochrones,  \* normal_isochrones, each data frame named by its locations
    avoiding_isochrones,\* avoiding_isochrones (first loop)
    flood_isochrones,   \* flood_isochrones (second loop)
    iso_requests,       \* [loop -> [scenario -> the locations of each request sent]]
    iso_flood_failed,   \* starts of the batches whose after-flood request raised ApiError
    iso_uncaught,       \* the exception that left the cell, "none" if none did
    iso_printed,        \* the lines printed by the first loop
    \* ---- Avoid_Area_Magdeburg-Original.py
    mag_pc,             \* "regular", "loop", "done", "aborted"
    flood_tweets,       \* flood_tweets: the polygons 1..n in the order of the file
    tweet_idx,          \* position of the for loop in flood_tweets
    avoided_point_list, \* avoided_point_list
    route_directions,   \* route_directions: the route at hand, NoRoute before the first
    dilated_route,      \* dilated_route: the buffer of a route
    map_layers,         \* the names of the route layers added to map_tweet
    mag_requests,       \* the avoided_point_list of each call of CreateRoute
    mag_intersected,    \* tweets that intersected dilated_route when they were examined
    mag_printed,        \* the lines printed by the cell
    \* ---- peak_routing_png_image.py
    peak_pc,            \* "routing", "display", "screenshot", "resize", "done", "aborted"
    peaks,              \* peaks: the names of the nodes of the Overpass result, in its order
    peak_idx,           \* position of the loop, or number of the display cell, at hand
    maps,               \* maps: [map_obj, routes] per peak routed
    displayed,          \* the display cells' output: heading, route info, map
    files,              \* the files of the maps folder: <<kind, peak name>>
    file_log,           \* every write and read of a file of the maps folder, in order
    peak_uncaught,      \* the exception that left a cell, "none" if none did
    \* ---- Routing_Optimization_Idai.py
    idai_pc,            \* "vehicles", "stations", "display", "done", "aborted"
    vehicles,           \* vehicles: the Vehicle objects defined so far
    idai_request,       \* the vehicles of the optimization request sent, <<>> before
    result,             \* result: the optimization response, [routes]
    route_idx,          \* position of the for loop in result['routes']
    stations,           \* stations
    vehicle_tables,     \* df_stations_0, _1, _2 under their headings, as displayed
    idai_uncaught,      \* the exception that left a cell, "none" if none did
    \* ---- Michael_Avoid_Noisy_Areas.py
    noisy_pc,           \* "regular", "avoidance", "compare", "done", "aborted"
    optimal_route,      \* optimal_route, Unbound while the name is not bound
    avoidance_route,    \* avoidance_route
    noisy_layers,       \* the layers added to map: [name, data]
    noisy_printed,      \* the lines printed by the cell
    noisy_failed,       \* the requests that raised: "regular", "avoidance"
    noisy_uncaught,     \* the exception that left the cell, "none" if none did
    \* ---- Health_Care_Access_Madagascar.py, the statistics per district
    acc_pc,             \* "population", "car", "foot", "done"
    districts_dictionary, \* districts_dictionary: [district -> its record]
    element_idx,        \* elements of the stats list at hand read so far
    total_population,   \* total_population
    pieces_read,        \* [profile -> [district -> population of the pieces read so far]]
    \* ---- Apartment_Search.py
    apt_pc,             \* "pois", "remove", "routes", "sum", "done", "aborted"
    apartments,         \* apartments: [name -> its 'categories', a list of
                        \* [typ, geojson, durations] in the order of categories_poi]
    apt_at,             \* <<apartment, category>>: the position of the loops at hand
    shortest_sum,       \* [name -> apt['shortest_sum']] for the apartments summed
    apt_uncaught,       \* the exception that left a cell, "none" if none did
    \* ---- ortools_pubcrawl.py
    pub_pc,             \* "addresses", "matrix", "solve", "extract", "done", "aborted"
    pubs_smoker,        \* pubs_smoker: the features of the places response
    pubs_addresses,     \* pubs_addresses
    pubs_coords,        \* pubs_coords
    assignment,         \* assignment: [found, next], next the solver's successor of
                        \* each index
    pub_index,          \* index
    optimal_coords,     \* optimal_coords
    pub_route,          \* route: the names joined by ' -> ', as their list
    \* ---- export_endpoint_centrality.py
    exp_pc,             \* "edges", "linemap", "graph", "map1", "remove", "map2", "done",
                        \* "aborted"
    resp,               \* resp['edges']: the edges [fromId, toId, weight] of the export
    edges,              \* edges: the dictionary, as the list of its items
                        \* [fromId, targets], targets the list of [toId, weight]
    exp_i,              \* items of the loop at hand passed so far
    lineMap,            \* what was added to lineMap: lines and markers
    g,                  \* g: the edges (u, v) of the DiGraph
    edge_centralities,  \* edge_centralities: [keys, flat], flat when all values are equal
    centralityMap,      \* what was added to centralityMap
    exp_maps,           \* the centrality maps completed
    exp_uncaught,       \* the exception that left a cell, "none" if none did
    \* ---- Centrality_healthcare.py
    hc_pc,              \* "routes", "done", "aborted"
    ors_graph,          \* ors_graph: its edges (u, v), each with key 1
    hospitals_df,       \* hospitals_df: for each row the node nearest to the hospital
    hc_start_points,    \* start_points: for each row the node nearest to the point
    h_idx,              \* the row of hospitals_df at hand
    s_idx,              \* the row of start_points at hand, 0 before the inner loop
    hc_routes,          \* routes: the list of route_df, each the list of its edges
    hc_recorded,        \* the pairs (hospital row, start row) whose route was appended
    hc_printed,         \* what the cell printed
    edges_df,           \* edges_df with the columns route_count and centrality
    hc_uncaught         \* the exception that left a cell, "none" if none did

madVars == <<mad_pc, num_facilities, facility_idx, request_counter, iso_car, iso_foot,
             mad_requests, since_sleep, last_window, sleeps, mad_failures, mad_printed>>
ahrVars == <<ahr_pc, num_places, place_idx, normal_routes, avoiding_routes,
             ahr_requests, flood_failed, ahr_printed>>
isoVars == <<iso_pc, iso_entered, physicians, start, normal_isochrones, avoiding_isochrones,
             flood_isochrones, iso_requests, iso_flood_failed,
             iso_uncaught, iso_printed>>
magVars == <<mag_pc, flood_tweets, tweet_idx, avoided_point_list, route_directions,
             dilated_route, map_layers, mag_requests, mag_intersected, mag_printed>>
peakVars == <<peak_pc, peaks, peak_idx, maps, displayed, files, file_log, peak_uncaught>>
idaiVars == <<idai_pc, vehicles, idai_request, result, route_idx, stations, vehicle_tables, idai_uncaught>>
noisyVars == <<noisy_pc, optimal_route, avoidance_route, noisy_layers, noisy_printed,
               noisy_failed, noisy_uncaught>>
accVars == <<acc_pc, districts_dictionary, element_idx, total_population, pieces_read>>
firstVars == <<madVars, ahrVars, isoVars, magVars, peakVars, idaiVars>>
aptVars == <<apt_pc, apartments, apt_at, shortest_sum, apt_uncaught>>
pubVars == <<pub_pc, pubs_smoker, pubs_addresses, pubs_coords, assignment, pub_index,
             optimal_coords, pub_route>>
expVars == <<exp_pc, resp, edges, exp_i, lineMap, g, edge_centralities, centralityMap,
             exp_maps, exp_uncaught>>
hcVars == <<hc_pc, ors_graph, hospitals_df, hc_start_points, h_idx, s_idx, hc_routes,
            hc_recorded, hc_printed, edges_df, hc_uncaught>>
restVars == <<noisyVars, accVars, aptVars, pubVars, expVars, hcVars>>
outsideNoisy == <<nb, firstVars, accVars, aptVars, pubVars, expVars, hcVars>>
outsideAcc == <<nb, firstVars, noisyVars, aptVars, pubVars, expVars, hcVars>>
outsideApt == <<nb, firstVars, noisyVars, accVars, pubVars, expVars, hcVars>>
outsidePub == <<nb, firstVars, noisyVars, accVars, aptVars, expVars, hcVars>>
outsideExp == <<nb, firstVars, noisyVars, accVars, aptVars, pubVars, hcVars>>
outsideHc == <<nb, firstVars, noisyVars, accVars, aptVars, pubVars, expVars>>
vars == <<nb, firstVars, restVars>>

Notebooks == {"madagascar", "ahr_routing", "ahr_isochrones", "magdeburg",
              "peaks", "idai", "noisy_areas",
              "madagascar_access", "pubcrawl",
              "export_endpoint", "healthcare_centrality"}

Range(s) == {s[i] : i \in 1..Len(s)}

(***************************************************************************)
(* Health_Care_Access_Madagascar.py: the car and the foot isochrone loop.  *)
(***************************************************************************)
Profiles == {"car", "foot"}

\* What one loop iteration can meet: the request returns and the shape is
\* appended; ors.isochrones raises; or the request returns and building the
\* shape from request['features'][0] raises.
IsoOutcomes == {"ok", "request_raises", "shape_raises"}

MadInit ==
    /\ mad_pc = "car"
    /\ num_facilities \in IF nb = "madagascar" THEN 0..MaxFacilities ELSE {0}
    /\ facility_idx = 1
    /\ request_counter = 0
    /\ iso_car = 0
    /\ iso_foot = 0
    /\ mad_requests = [p \in Profiles |-> [f \in 1..MaxFacilities |-> 0]]
    /\ since_sleep = 0
    /\ last_window = 0
    /\ sleeps = 0
    /\ mad_failures = 0
    /\ mad_printed = <<>>

\* for facility_id in facilities_dictionary.keys(): the next key, whatever
\* the iteration met.
MadNextFacilityRetry(idx, outcome) == IF outcome = "ok" THEN idx + 1 ELSE idx

MadNextFacility(idx, outcome) == idx + 1

\* request_counter += 1 is reached when ors.isochrones returned.
CounterAfter(counter, outcome) ==
    IF outcome = "request_raises" THEN counter ELSE counter + 1

\* iso_car.append(shape(...)) is reached when the shape was built.
IsoAfter(iso, outcome) == IF outcome = "ok" THEN iso + 1 ELSE iso

\* if len(iso_car) % 39 == 0: time.sleep(60), inside the try, after the append.
SleepsNow(iso, outcome) == outcome = "ok" /\ IsoAfter(iso, outcome) % SleepEvery = 0

\* One iteration of a request loop for profile p over the list length iso.
MadIteration(p, iso, outcome) ==
    /\ nb = "madagascar"
    /\ mad_pc = p
    /\ facility_idx <= num_facilities
    /\ outcome # "ok" => mad_failures < MaxFailures
    /\ mad_requests' = [mad_requests EXCEPT ![p][facility_idx] = @ + 1]
    /\ request_counter' = CounterAfter(request_counter, outcome)
    /\ since_sleep' = IF SleepsNow(iso, outcome) THEN 0 ELSE since_sleep + 1
    /\ last_window' = IF SleepsNow(iso, outcome) THEN since_sleep + 1 ELSE last_window
    /\ sleeps' = IF SleepsNow(iso, outcome) THEN sleeps + 1 ELSE sleeps
    /\ mad_failures' = IF outcome = "ok" THEN mad_failures ELSE mad_failures + 1
    /\ facility_idx' = MadNextFacility(facility_idx, outcome)
    /\ UNCHANGED <<mad_pc, num_facilities, mad_printed>>

CarIteration ==
    \E outcome \in IsoOutcomes :
        /\ MadIteration("car", iso_car, outcome)
        /\ iso_car' = IsoAfter(iso_car, outcome)
        /\ UNCHANGED <<iso_foot, nb, restVars, ahrVars, isoVars, magVars,
                   peakVars, idaiVars>>

\* The car loop is exhausted: print the counter; the next cell resets it.
CarLoopEnd ==
    /\ nb = "madagascar"
    /\ mad_pc = "car"
    /\ facility_idx > num_facilities
    /\ mad_printed' = Append(mad_printed, <<"car", request_counter>>)
    /\ mad_pc' = "foot"
    /\ request_counter' = 0
    /\ facility_idx' = 1
    /\ since_sleep' = 0
    /\ UNCHANGED <<num_facilities, iso_car, iso_foot, mad_requests, last_window,
                   sleeps, mad_failures, nb, restVars, ahrVars, isoVars, magVars,
                   peakVars, idaiVars>>

FootIteration ==
    \E outcome \in IsoOutcomes :
        /\ MadIteration("foot", iso_foot, outcome)
        /\ iso_foot' = IsoAfter(iso_foot, outcome)
        /\ UNCHANGED <<iso_car, nb, restVars, ahrVars, isoVars, magVars,
                   peakVars, idaiVars>>

FootLoopEnd ==
    /\ nb = "madagascar"
    /\ mad_pc = "foot"
    /\ facility_idx > num_facilities
    /\ mad_printed' = Append(mad_printed, <<"foot", request_counter>>)
    /\ mad_pc' = "done"
    /\ UNCHANGED <<num_facilities, facility_idx, request_counter, iso_car, iso_foot,
                   mad_requests, since_sleep, last_window, sleeps, mad_failures,
                   nb, restVars, ahrVars, isoVars, magVars, peakVars, idaiVars>>

(***************************************************************************)
(* Ahrtal-Avoid-Areas.py: the routing loop over affected_places.           *)
(***************************************************************************)
Scenarios == {"normal", "flood"}

NoRouteMessage(place) == <<"No route found for", place>>

AhrInit ==
    /\ ahr_pc = "loop"
    /\ num_places \in IF nb = "ahr_routing" THEN 0..MaxPlaces ELSE {0}
    /\ place_idx = 1
    /\ normal_routes = <<>>
    /\ avoiding_routes = <<>>
    /\ ahr_requests = [s \in Scenarios |-> [p \in 1..MaxPlaces |-> 0]]
    /\ flood_failed = {}
    /\ ahr_printed = <<>>

\* for i, p in affected_places.iterrows(): the next row.
AhrNextPlace(idx) == idx + 1

\* except ApiError: print(...); continue -- the appends after the try are
\* skipped, so a list is what it was.
RoutesAfterApiErrorFallThrough(routes, place) == Append(routes, place)

RoutesAfterApiError(routes, place) == routes

AhrAtPlace ==
    /\ nb = "ahr_routing"
    /\ ahr_pc = "loop"
    /\ place_idx <= num_places

\* ors_client.directions(**request_params) raises: nothing catches it.
AhrNormalRaises ==
    /\ AhrAtPlace
    /\ ahr_requests' = [ahr_requests EXCEPT !["normal"][place_idx] = @ + 1]
    /\ ahr_pc' = "aborted"
    /\ UNCHANGED <<num_places, place_idx, normal_routes, avoiding_routes,
                   flood_failed, ahr_printed, nb, restVars, madVars, isoVars, magVars,
                   peakVars, idaiVars>>

\* Both requests return: both data frames are appended.
AhrBothRoutes ==
    /\ AhrAtPlace
    /\ ahr_requests' = [ahr_requests EXCEPT !["normal"][place_idx] = @ + 1,
                                            !["flood"][place_idx] = @ + 1]
    /\ avoiding_routes' = Append(avoiding_routes, place_idx)
    /\ normal_routes' = Append(normal_routes, place_idx)
    /\ place_idx' = AhrNextPlace(place_idx)
    /\ UNCHANGED <<ahr_pc, num_places, flood_failed, ahr_printed, nb, restVars, madVars, isoVars, magVars,
                   peakVars, idaiVars>>

\* The after-flood request raises ApiError: the message, then continue.
AhrFloodApiError ==
    /\ AhrAtPlace
    /\ ahr_requests' = [ahr_requests EXCEPT !["normal"][place_idx] = @ + 1,
                                            !["flood"][place_idx] = @ + 1]
    /\ flood_failed' = flood_failed \cup {place_idx}
    /\ ahr_printed' = Append(ahr_printed, NoRouteMessage(place_idx))
    /\ avoiding_routes' = RoutesAfterApiError(avoiding_routes, place_idx)
    /\ normal_routes' = RoutesAfterApiError(normal_routes, place_idx)
    /\ place_idx' = AhrNextPlace(place_idx)
    /\ UNCHANGED <<ahr_pc, num_places, nb, restVars, madVars, isoVars, magVars,
                   peakVars, idaiVars>>

\* The after-flood request raises something else than ApiError (a timeout,
\* a transport error): except ApiError does not catch it.
AhrFloodOtherRaises ==
    /\ AhrAtPlace
    /\ ahr_requests' = [ahr_requests EXCEPT !["normal"][place_idx] = @ + 1,
                                            !["flood"][place_idx] = @ + 1]
    /\ ahr_pc' = "aborted"
    /\ UNCHANGED <<num_places, place_idx, normal_routes, avoiding_routes,
                   flood_failed, ahr_printed, nb, restVars, madVars, isoVars, magVars,
                   peakVars, idaiVars>>

AhrLoopEnd ==
    /\ nb = "ahr_routing"
    /\ ahr_pc = "loop"
    /\ place_idx > num_places
    /\ ahr_pc' = "done"
    /\ UNCHANGED <<num_places, place_idx, normal_routes, avoiding_routes,
                   ahr_requests, flood_failed, ahr_printed, nb, restVars, madVars, isoVars, magVars,
                   peakVars, idaiVars>>

(***************************************************************************)
(* Ahrtal-Avoid-Areas-Isochrones.py: the two physician loops.  The first   *)
(* loop stands in the notebook's first section.  The cells from            *)
(* "physicians = gpd.read_file(...)" before the second loop on bind again  *)
(* every name the second loop reads, so that section is also evaluated on  *)
(* its own: Init starts a behaviour at either loop.                        *)
(***************************************************************************)
Loops == {"first", "second"}

\* The names the notebook has bound when the first loop runs: its imports
\* and the assignments of the cells above the loop and of the loop itself.
BoundNames ==
    {"client", "ApiError", "gpd", "pd", "sns", "plt", "folium", "Point", "mapping",
     "rio", "zonal_stats", "api_key", "ors_client", "ors_client_custom",
     "badneuenahr_coordinates", "badneuenahr_df", "affected_roads_bridges",
     "affected_places", "affected_roads_bridges_union", "profile",
     "isochrones_parameters", "isochrones_parameters_flood", "isochrones",
     "isochrones_df", "isochrones_flood", "isochrones_flood_df", "m", "physicians",
     "municipalities", "src", "population", "normal_isochrones",
     "avoiding_isochrones", "i", "start", "selected_physicians", "coordinates"}

\* What a request can meet, and what the after-flood request of the first
\* loop can meet: ApiError, which its handler catches, or another exception.
RequestOutcomes == {"ok", "raises"}
FloodOutcomes == {"ok", "api_error", "raises"}

\* gpd.read_file(physicians.gpkg): n rows under the default index 0..n-1.
ReadPhysicians(n) == [k \in 1..n |-> [label |-> k - 1, id |-> k]]

Min(a, b) == IF a <= b THEN a ELSE b

\* frame[a:b], the positional slice: rows a..b-1 counted from 0, cut at the end.
PySlice(frame, a, b) == SubSeq(frame, a + 1, Min(b, Len(frame)))

\* frame.loc[a:b], the slice by label: the rows labelled a..b, b included.
LocSlice(frame, a, b) == SelectSeq(frame, LAMBDA row : row.label >= a /\ row.label <= b)

\* selected_physicians = physicians[start:start+5]
FirstLoopBatch(frame, s) == PySlice(frame, s, s + GroupSize)

\* selected_physicians = physicians.loc[start:start+4]
SecondLoopBatch(frame, s) == LocSlice(frame, s, s + LocLast)

\* coordinates = selected_physicians.geometry.map(...): one location per row.
Coordinates(batch) == [k \in 1..Len(batch) |-> batch[k].id]

\* range(0, len(physicians), 5): the next start.
NextStart(s) == s + GroupSize

IsoInit ==
    /\ iso_pc \in IF nb = "ahr_isochrones" THEN Loops ELSE {"first"}
    /\ iso_entered = {iso_pc}
    /\ physicians \in {ReadPhysicians(n) :
                          n \in IF nb = "ahr_isochrones" THEN 0..MaxPhysicians ELSE {0}}
    /\ start = 0
    /\ normal_isochrones = <<>>
    /\ avoiding_isochrones = <<>>
    /\ flood_isochrones = <<>>
    /\ iso_requests = [l \in Loops |-> [s \in Scenarios |-> <<>>]]
    /\ iso_flood_failed = {}
    /\ iso_uncaught = "none"
    /\ iso_printed = <<>>

IsoAtBatch(loop) ==
    /\ nb = "ahr_isochrones"
    /\ iso_pc = loop
    /\ start < Len(physicians)

Sent(loop, scenario, locations) ==
    [iso_requests EXCEPT ![loop][scenario] = Append(@, locations)]

SentBoth(loop, locations) ==
    [iso_requests EXCEPT ![loop]["normal"] = Append(@, locations),
                         ![loop]["flood"] = Append(@, locations)]

Aborted(state, exception) == [state EXCEPT !.pc = "aborted", !.uncaught = exception]

\* The body of the first loop, statement by statement, for the outcomes the
\* two requests would meet.  ors.isochrones(...) reads the name ors, and the
\* handler's second print reads the name p: a name the notebook has not
\* bound raises NameError where it is read.
FirstLoopBody(state, normal_outcome, flood_outcome) ==
    LET coordinates == Coordinates(FirstLoopBatch(physicians, state.start))
        normal_sent == [state EXCEPT !.requests = Sent("first", "normal", coordinates)]
        normal_kept == [normal_sent EXCEPT
                            !.normal_isochrones = Append(@, coordinates)]
        flood_sent == [normal_kept EXCEPT
                            !.requests = SentBoth("first", coordinates)]
        reported == [flood_sent EXCEPT
                            !.flood_failed = @ \cup {state.start},
                            !.printed = Append(@, <<"ApiError", state.start>>)]
    IN IF "ors" \notin BoundNames THEN Aborted(state, "NameError")
       ELSE IF normal_outcome = "raises" THEN Aborted(normal_sent, "RequestError")
       ELSE IF flood_outcome = "raises" THEN Aborted(flood_sent, "RequestError")
       ELSE IF flood_outcome = "api_error"
            THEN IF "p" \notin BoundNames
                 THEN Aborted(reported, "NameError")
                 ELSE [reported EXCEPT
                          !.printed = Append(@, <<"No isochrones found for", state.start>>),
                          !.start = NextStart(@)]
       ELSE [flood_sent EXCEPT !.avoiding_isochrones = Append(@, coordinates),
                               !.start = NextStart(@)]

\* for i, start in enumerate(range(0, len(physicians), 5)): one iteration.
IsoFirstIteration ==
    /\ IsoAtBatch("first")
    /\ \E normal_outcome \in RequestOutcomes, flood_outcome \in FloodOutcomes :
          LET after == FirstLoopBody([pc |-> iso_pc, uncaught |-> iso_uncaught,
                                      start |-> start, requests |-> iso_requests,
                                      normal_isochrones |-> normal_isochrones,
                                      avoiding_isochrones |-> avoiding_isochrones,
                                      flood_failed |-> iso_flood_failed,
                                      printed |-> iso_printed],
                                     normal_outcome, flood_outcome)
          IN /\ iso_pc' = after.pc
             /\ iso_uncaught' = after.uncaught
             /\ start' = after.start
             /\ iso_requests' = after.requests
             /\ normal_isochrones' = after.normal_isochrones
             /\ avoiding_isochrones' = after.avoiding_isochrones
             /\ iso_flood_failed' = after.flood_failed
             /\ iso_printed' = after.printed
    /\ UNCHANGED <<physicians, flood_isochrones, iso_entered, nb, restVars, madVars, ahrVars, magVars,
                   peakVars, idaiVars>>

\* The first loop's range is exhausted.  The next cell concatenates the two
\* lists: pd.concat raises ValueError on an empty list.  Otherwise the cells
\* up to the second loop read the physicians again and empty the lists.
IsoFirstLoopEnd ==
    /\ nb = "ahr_isochrones"
    /\ iso_pc = "first"
    /\ start >= Len(physicians)
    /\ IF normal_isochrones = <<>> \/ avoiding_isochrones = <<>>
       THEN /\ iso_pc' = "aborted"
            /\ iso_uncaught' = "ValueError"
            /\ UNCHANGED <<iso_entered, physicians, start, normal_isochrones>>
       ELSE /\ iso_pc' = "second"
            /\ iso_entered' = iso_entered \cup {"second"}
            /\ physicians' = ReadPhysicians(Len(physicians))
            /\ normal_isochrones' = <<>>
            /\ start' = 0
            /\ UNCHANGED iso_uncaught
    /\ UNCHANGED <<avoiding_isochrones, flood_isochrones, iso_requests,
                   iso_flood_failed, iso_printed, nb, restVars, madVars, ahrVars, magVars,
                   peakVars, idaiVars>>

\* Second loop: no try; ors_client.isochrones raises.
IsoSecondNormalRaises ==
    /\ IsoAtBatch("second")
    /\ iso_requests' = Sent("second", "normal", Coordinates(SecondLoopBatch(physicians, start)))
    /\ iso_pc' = "aborted"
    /\ iso_uncaught' = "RequestError"
    /\ UNCHANGED <<physicians, start, normal_isochrones, avoiding_isochrones,
                   flood_isochrones, iso_flood_failed, iso_printed,
                   iso_entered, nb, restVars, madVars, ahrVars, magVars, peakVars, idaiVars>>

\* Second loop: ors_client_custom.request raises.
IsoSecondFloodRaises ==
    /\ IsoAtBatch("second")
    /\ iso_requests' = SentBoth("second", Coordinates(SecondLoopBatch(physicians, start)))
    /\ iso_pc' = "aborted"
    /\ iso_uncaught' = "RequestError"
    /\ UNCHANGED <<physicians, start, normal_isochrones, avoiding_isochrones,
                   flood_isochrones, iso_flood_failed, iso_printed,
                   iso_entered, nb, restVars, madVars, ahrVars, magVars, peakVars, idaiVars>>

\* Second loop: both requests return.
IsoSecondBoth ==
    /\ IsoAtBatch("second")
    /\ LET coordinates == Coordinates(SecondLoopBatch(physicians, start))
       IN /\ iso_requests' = SentBoth("second", coordinates)
          /\ flood_isochrones' = Append(flood_isochrones, coordinates)
          /\ normal_isochrones' = Append(normal_isochrones, coordinates)
    /\ start' = NextStart(start)
    /\ UNCHANGED <<iso_pc, physicians, avoiding_isochrones,
                   iso_flood_failed, iso_uncaught, iso_printed,
                   iso_entered, nb, restVars, madVars, ahrVars, magVars, peakVars, idaiVars>>

\* The second loop's range is exhausted; pd.concat of the next cell raises
\* ValueError on an empty list.
IsoSecondLoopEnd ==
    /\ nb = "ahr_isochrones"
    /\ iso_pc = "second"
    /\ start >= Len(physicians)
    /\ IF normal_isochrones = <<>>
       THEN iso_pc' = "aborted" /\ iso_uncaught' = "ValueError"
       ELSE iso_pc' = "done" /\ UNCHANGED iso_uncaught
    /\ UNCHANGED <<physicians, start, normal_isochrones, avoiding_isochrones,
                   flood_isochrones, iso_requests, iso_flood_failed,
                   iso_printed, iso_entered, nb, restVars, madVars, ahrVars, magVars, peakVars, idaiVars>>

(***************************************************************************)
(* Avoid_Area_Magdeburg-Original.py: the regular and the alternative route.*)
(* A route is known by how it lies to the flood-tweet polygons: those its  *)
(* line crosses, those that lie within its buffer, and those that overlap  *)
(* the buffer without lying within it.                                     *)
(***************************************************************************)
NoRoute == [crossed |-> {}, within |-> {}, overlap |-> {}, none |-> TRUE]

Routes(tweets) ==
    {[crossed |-> c, within |-> w, overlap |-> o, none |-> FALSE] :
        <<c, w, o>> \in {t \in (SUBSET tweets) \X (SUBSET tweets) \X (SUBSET tweets) :
                            /\ t[2] \cap t[3] = {}
                            /\ t[1] \subseteq t[2] \cup t[3]}}

\* clnt.directions with options.avoid_polygons: a route that crosses none of
\* the avoided polygons (it may still pass close to them).
CreateRoute(tweets, avoided) ==
    {r \in Routes(tweets) : r.crossed \cap Range(avoided) = {}}

\* LineString(...).buffer(0.001)
CreateBuffer(route) == [within |-> route.within, overlap |-> route.overlap]

\* poly.within(dilated_route)
Within(tweet, dilated) == tweet \in dilated.within

\* poly.intersects(dilated_route): within the buffer or overlapping it.
Intersects(tweet, dilated) == tweet \in dilated.within \cup dilated.overlap

RegularMessage == "Generated regular route."
AlternativeMessage == "Generated alternative route, which avoids affected areas."
\* The message of the success branch in the place of the apology.
SorryIsSuccess == AlternativeMessage

SorryMessage == "Sorry, there is no route available between the requested destination because of too many blocked streets."

MagInit ==
    /\ mag_pc = "regular"
    /\ flood_tweets \in {1..n : n \in IF nb = "magdeburg" THEN 0..MaxTweets ELSE {0}}
    /\ tweet_idx = 1
    /\ avoided_point_list = <<>>
    /\ route_directions = NoRoute
    /\ dilated_route = CreateBuffer(NoRoute)
    /\ map_layers = <<>>
    /\ mag_requests = <<>>
    /\ mag_intersected = {}
    /\ mag_printed = <<>>

\* The regular route: CreateRoute with the empty list, its layer, its buffer.
MagRegularRoute ==
    /\ nb = "magdeburg"
    /\ mag_pc = "regular"
    /\ mag_requests' = Append(mag_requests, avoided_point_list)
    /\ \E r \in CreateRoute(flood_tweets, avoided_point_list) :
          /\ route_directions' = r
          /\ dilated_route' = CreateBuffer(r)
    /\ map_layers' = Append(map_layers, "Regular Route")
    /\ mag_printed' = Append(mag_printed, RegularMessage)
    /\ mag_pc' = "loop"
    /\ UNCHANGED <<flood_tweets, tweet_idx, avoided_point_list, mag_intersected,
                   nb, restVars, madVars, ahrVars, isoVars,
                   peakVars, idaiVars>>

\* The first CreateRoute raises: it stands outside the try.
MagRegularRaises ==
    /\ nb = "magdeburg"
    /\ mag_pc = "regular"
    /\ mag_requests' = Append(mag_requests, avoided_point_list)
    /\ mag_pc' = "aborted"
    /\ UNCHANGED <<flood_tweets, tweet_idx, avoided_point_list, route_directions,
                   dilated_route, map_layers, mag_intersected, mag_printed,
                   nb, restVars, madVars, ahrVars, isoVars,
                   peakVars, idaiVars>>

MagAtTweet ==
    /\ nb = "magdeburg"
    /\ mag_pc = "loop"
    /\ tweet_idx \in flood_tweets

Examined ==
    IF Intersects(tweet_idx, dilated_route)
    THEN mag_intersected \cup {tweet_idx}
    ELSE mag_intersected

\* for site_poly in flood_tweets: the polygon is not within the buffer.
MagTweetNotWithin ==
    /\ MagAtTweet
    /\ ~Within(tweet_idx, dilated_route)
    /\ mag_intersected' = Examined
    /\ tweet_idx' = tweet_idx + 1
    /\ UNCHANGED <<mag_pc, flood_tweets, avoided_point_list, route_directions,
                   dilated_route, map_layers, mag_requests, mag_printed,
                   nb, restVars, madVars, ahrVars, isoVars,
                   peakVars, idaiVars>>

\* The polygon is within the buffer: append it, request a new route, buffer it.
MagTweetReroute ==
    /\ MagAtTweet
    /\ Within(tweet_idx, dilated_route)
    /\ mag_intersected' = Examined
    /\ avoided_point_list' = Append(avoided_point_list, tweet_idx)
    /\ mag_requests' = Append(mag_requests, avoided_point_list')
    /\ \E r \in CreateRoute(flood_tweets, avoided_point_list') :
          /\ route_directions' = r
          /\ dilated_route' = CreateBuffer(r)
    /\ tweet_idx' = tweet_idx + 1
    /\ UNCHANGED <<mag_pc, flood_tweets, map_layers, mag_printed,
                   nb, restVars, madVars, ahrVars, isoVars,
                   peakVars, idaiVars>>

\* The polygon is within the buffer and the new request raises: except
\* Exception prints the apology; no alternative layer is added.
MagRerouteRaises ==
    /\ MagAtTweet
    /\ Within(tweet_idx, dilated_route)
    /\ mag_intersected' = Examined
    /\ avoided_point_list' = Append(avoided_point_list, tweet_idx)
    /\ mag_requests' = Append(mag_requests, avoided_point_list')
    /\ mag_printed' = Append(mag_printed, SorryMessage)
    /\ mag_pc' = "done"
    /\ UNCHANGED <<flood_tweets, tweet_idx, route_directions, dilated_route,
                   map_layers, nb, restVars, madVars, ahrVars, isoVars,
                   peakVars, idaiVars>>

\* The loop is exhausted: the route at hand becomes the alternative route.
MagLoopEnd ==
    /\ nb = "magdeburg"
    /\ mag_pc = "loop"
    /\ tweet_idx \notin flood_tweets
    /\ map_layers' = Append(map_layers, "Alternative Route")
    /\ mag_printed' = Append(mag_printed, AlternativeMessage)
    /\ mag_pc' = "done"
    /\ UNCHANGED <<flood_tweets, tweet_idx, avoided_point_list, route_directions,
                   dilated_route, mag_requests, mag_intersected,
                   nb, restVars, madVars, ahrVars, isoVars,
                   peakVars, idaiVars>>

(***************************************************************************)
(* peak_routing_png_image.py: routes to the peaks, the maps, their images. *)
(***************************************************************************)
\* peak_names (the third name is written with an a-acute in the notebook)
peak_names == <<"Zeisigstein", "Herkuleskopf", "Kristin Hradek">>

\* start_points, by name
start_points == <<"Bushaltestelle Zollhaus", "Waldparkplatz Ottomuehle", "Hotel Ostrov">>

\* The lists without repetition over the members of a set: what a query may
\* return of it, in any order.
InjectiveSeqs(S) ==
    {q \in UNION {[1..n -> S] : n \in 0..Cardinality(S)} :
        \A i, j \in 1..Len(q) : i # j => q[i] # q[j]}

\* routes[start["name"]]: distance and duration of the route start -> peak.
RouteSummary(start_name, peak) == <<start_name, peak>>

\* One entry of maps: the map built for the peak and its route summaries.
MapEntry(peak) ==
    [map_obj |-> peak,
     routes |-> [k \in 1..Len(start_points) |-> RouteSummary(start_points[k], peak)]]

\* map_object.save("maps/" + peak["name"] + ".html")
SaveHtmlNowhere(state, peak) == state

SaveHtml(state, peak) ==
    [files |-> state.files \cup {<<"html", peak>>},
     log |-> Append(state.log, <<"write", "html", peak>>)]

PeakInit ==
    /\ peak_pc = "routing"
    /\ peaks \in IF nb = "peaks" THEN InjectiveSeqs(Range(peak_names)) ELSE {<<>>}
    /\ peak_idx = 1
    /\ maps = <<>>
    /\ displayed = <<>>
    /\ files = {}
    /\ file_log = <<>>
    /\ peak_uncaught = "none"

\* for peak in peaks: the three requests return; the map is appended and saved.
PeakRoutes ==
    /\ nb = "peaks"
    /\ peak_pc = "routing"
    /\ peak_idx <= Len(peaks)
    /\ maps' = Append(maps, MapEntry(peaks[peak_idx]))
    /\ LET saved == SaveHtml([files |-> files, log |-> file_log], peaks[peak_idx])
       IN /\ files' = saved.files
          /\ file_log' = saved.log
    /\ peak_idx' = peak_idx + 1
    /\ UNCHANGED <<peak_pc, peaks, displayed, peak_uncaught,
                   nb, restVars, madVars, ahrVars, isoVars, magVars, idaiVars>>

\* client.directions raises for one of the start points: nothing catches it.
PeakRequestRaises ==
    /\ nb = "peaks"
    /\ peak_pc = "routing"
    /\ peak_idx <= Len(peaks)
    /\ peak_pc' = "aborted"
    /\ peak_uncaught' = "RequestError"
    /\ UNCHANGED <<peaks, peak_idx, maps, displayed, files, file_log,
                   nb, restVars, madVars, ahrVars, isoVars, magVars, idaiVars>>

PeakRoutingEnd ==
    /\ nb = "peaks"
    /\ peak_pc = "routing"
    /\ peak_idx > Len(peaks)
    /\ peak_pc' = "display"
    /\ peak_idx' = 1
    /\ UNCHANGED <<peaks, maps, displayed, files, file_log, peak_uncaught,
                   nb, restVars, madVars, ahrVars, isoVars, magVars, idaiVars>>

\* A display cell: the heading names peak_names[i], the content is maps[i].
PeakDisplay ==
    /\ nb = "peaks"
    /\ peak_pc = "display"
    /\ peak_idx <= Len(maps)
    /\ displayed' = Append(displayed, [heading |-> peak_names[peak_idx],
                                       info |-> maps[peak_idx].routes,
                                       map |-> maps[peak_idx].map_obj])
    /\ IF peak_idx = Len(peak_names)
       THEN peak_pc' = "screenshot" /\ peak_idx' = 1
       ELSE peak_pc' = peak_pc /\ peak_idx' = peak_idx + 1
    /\ UNCHANGED <<peaks, maps, files, file_log, peak_uncaught,
                   nb, restVars, madVars, ahrVars, isoVars, magVars, idaiVars>>

\* A display cell for an index maps does not have: the heading is printed,
\* then maps[i] raises IndexError.
PeakDisplayIndexError ==
    /\ nb = "peaks"
    /\ peak_pc = "display"
    /\ peak_idx > Len(maps)
    /\ peak_pc' = "aborted"
    /\ peak_uncaught' = "IndexError"
    /\ UNCHANGED <<peaks, peak_idx, maps, displayed, files, file_log,
                   nb, restVars, madVars, ahrVars, isoVars, magVars, idaiVars>>

\* for peak in peak_names: driver.get of the html file, then the screenshot.
\* A file that is not there makes the driver raise.
PeakScreenshot ==
    /\ nb = "peaks"
    /\ peak_pc = "screenshot"
    /\ peak_idx <= Len(peak_names)
    /\ LET peak == peak_names[peak_idx]
           loaded == Append(file_log, <<"read", "html", peak>>)
       IN IF <<"html", peak>> \in files
          THEN /\ file_log' = Append(loaded, <<"write", "png", peak>>)
               /\ files' = files \cup {<<"png", peak>>}
               /\ peak_idx' = peak_idx + 1
               /\ UNCHANGED <<peak_pc, peak_uncaught>>
          ELSE /\ file_log' = loaded
               /\ peak_pc' = "aborted"
               /\ peak_uncaught' = "WebDriverException"
               /\ UNCHANGED <<files, peak_idx>>
    /\ UNCHANGED <<peaks, maps, displayed,
                   nb, restVars, madVars, ahrVars, isoVars, magVars, idaiVars>>

PeakScreenshotEnd ==
    /\ nb = "peaks"
    /\ peak_pc = "screenshot"
    /\ peak_idx > Len(peak_names)
    /\ peak_pc' = "resize"
    /\ peak_idx' = 1
    /\ UNCHANGED <<peaks, maps, displayed, files, file_log, peak_uncaught,
                   nb, restVars, madVars, ahrVars, isoVars, magVars, idaiVars>>

\* for peak in peak_names: Image.open of the png, then the _small png.
PeakResize ==
    /\ nb = "peaks"
    /\ peak_pc = "resize"
    /\ peak_idx <= Len(peak_names)
    /\ LET peak == peak_names[peak_idx]
           opened == Append(file_log, <<"read", "png", peak>>)
       IN IF <<"png", peak>> \in files
          THEN /\ file_log' = Append(opened, <<"write", "small", peak>>)
               /\ files' = files \cup {<<"small", peak>>}
               /\ peak_idx' = peak_idx + 1
               /\ UNCHANGED <<peak_pc, peak_uncaught>>
          ELSE /\ file_log' = opened
               /\ peak_pc' = "aborted"
               /\ peak_uncaught' = "FileNotFoundError"
               /\ UNCHANGED <<files, peak_idx>>
    /\ UNCHANGED <<peaks, maps, displayed,
                   nb, restVars, madVars, ahrVars, isoVars, magVars, idaiVars>>

PeakResizeEnd ==
    /\ nb = "peaks"
    /\ peak_pc = "resize"
    /\ peak_idx > Len(peak_names)
    /\ peak_pc' = "done"
    /\ UNCHANGED <<peaks, peak_idx, maps, displayed, files, file_log, peak_uncaught,
                   nb, restVars, madVars, ahrVars, isoVars, magVars, idaiVars>>

(***************************************************************************)
(* Routing_Optimization_Idai.py: the per-vehicle tables of the response.   *)
(***************************************************************************)
\* vehicles: ids 0, 1, 2
VehicleIds == 0..2

\* A route of the response: the vehicle, its start step (no job, no service)
\* and one step for the job it serves.
Route(vehicle, job) ==
    [vehicle |-> vehicle,
     steps |-> <<[arrival |-> WindowStart],
                 [job |-> job, arrival |-> WindowStart + Service * job,
                  service |-> Service]>>]

\* step.get(key, default)
Get(step, key, default) == IF key \in DOMAIN step THEN step[key] ELSE default

\* The list built for one route: station id, arrival, departure per step.
VehicleStations(route) ==
    [k \in 1..Len(route.steps) |->
        LET step == route.steps[k]
        IN <<Get(step, "job", "Depot"),
             step.arrival,
             step.arrival + Get(step, "service", 0)>>]

\* Python's None, the value of a keyword argument that is not given: written
\* as the empty tuple, which no coordinate pair, capacity or window equals.
None == <<>>

\* depot = [-19.818474, 34.835447], as [lat, lon] in millionths of a degree.
depot == <<-19818474, 34835447>>

\* list(reversed(xs))
Reversed(xs) == [k \in 1..Len(xs) |-> xs[Len(xs) + 1 - k]]

\* ors.optimization.Vehicle(id, start=None, end=None, capacity=None,
\* time_window=None): the object keeps the arguments it was given.
Vehicle(id, start_at, end_at, capacity, time_window) ==
    [id |-> id, start |-> start_at, end |-> end_at, capacity |-> capacity,
     time_window |-> time_window]

\* The vehicle the loop defines for idx: start is given, the end argument is
\* commented out and so not given.
DefinedVehicle(idx) ==
    Vehicle(idx, Reversed(depot), None, <<Capacity>>, <<WindowStart, WindowEnd>>)

\* The optimization responses: routes for any of the vehicles, in any order,
\* each serving some job.
Responses ==
    {[routes |-> [k \in 1..Len(order) |-> Route(order[k], jobs[order[k]])]] :
        order \in InjectiveSeqs(VehicleIds), jobs \in [VehicleIds -> 1..MaxJobs]}

IdaiInit ==
    /\ idai_pc = "vehicles"
    /\ vehicles = <<>>
    /\ idai_request = <<>>
    /\ result \in IF nb = "idai" THEN Responses ELSE {[routes |-> <<>>]}
    /\ route_idx = 1
    /\ stations = <<>>
    /\ vehicle_tables = <<>>
    /\ idai_uncaught = "none"

\* for idx in range(3): vehicles.append(ors.optimization.Vehicle(id=idx, ...))
IdaiDefineVehicle ==
    /\ nb = "idai"
    /\ idai_pc = "vehicles"
    /\ Len(vehicles) < NumVehicles
    /\ vehicles' = Append(vehicles, DefinedVehicle(Len(vehicles)))
    /\ UNCHANGED <<idai_pc, idai_request, result, route_idx, stations, vehicle_tables,
                   idai_uncaught, nb, restVars, madVars, ahrVars, isoVars, magVars, peakVars>>

\* result = ors_client.optimization(jobs=deliveries, vehicles=vehicles, ...):
\* the request carries the vehicles; result is the response the service gives.
IdaiOptimization ==
    /\ nb = "idai"
    /\ idai_pc = "vehicles"
    /\ Len(vehicles) = NumVehicles
    /\ idai_request' = vehicles
    /\ idai_pc' = "stations"
    /\ UNCHANGED <<vehicles, result, route_idx, stations, vehicle_tables,
                   idai_uncaught, nb, restVars, madVars, ahrVars, isoVars, magVars, peakVars>>

\* for route in result['routes']: stations.append(vehicle)
IdaiStations ==
    /\ nb = "idai"
    /\ idai_pc = "stations"
    /\ route_idx <= Len(result.routes)
    /\ stations' = Append(stations, VehicleStations(result.routes[route_idx]))
    /\ route_idx' = route_idx + 1
    /\ UNCHANGED <<vehicles, idai_request, idai_pc, result, vehicle_tables, idai_uncaught,
                   nb, restVars, madVars, ahrVars, isoVars, magVars, peakVars>>

IdaiStationsEnd ==
    /\ nb = "idai"
    /\ idai_pc = "stations"
    /\ route_idx > Len(result.routes)
    /\ idai_pc' = "display"
    /\ route_idx' = 0
    /\ UNCHANGED <<vehicles, idai_request, result, stations, vehicle_tables, idai_uncaught,
                   nb, restVars, madVars, ahrVars, isoVars, magVars, peakVars>>

\* The cell under '### Vehicle k': df_stations_k = pd.DataFrame(stations[k]).
IdaiVehicleTable ==
    /\ nb = "idai"
    /\ idai_pc = "display"
    /\ route_idx < Len(stations)
    /\ vehicle_tables' = Append(vehicle_tables,
                                [heading |-> route_idx, rows |-> stations[route_idx + 1]])
    /\ IF route_idx = 2
       THEN idai_pc' = "done" /\ route_idx' = route_idx
       ELSE idai_pc' = idai_pc /\ route_idx' = route_idx + 1
    /\ UNCHANGED <<vehicles, idai_request, result, stations, idai_uncaught,
                   nb, restVars, madVars, ahrVars, isoVars, magVars, peakVars>>

\* stations[k] for a k the list does not have raises IndexError.
IdaiVehicleTableIndexError ==
    /\ nb = "idai"
    /\ idai_pc = "display"
    /\ route_idx >= Len(stations)
    /\ idai_pc' = "aborted"
    /\ idai_uncaught' = "IndexError"
    /\ UNCHANGED <<vehicles, idai_request, result, route_idx, stations, vehicle_tables,
                   nb, restVars, madVars, ahrVars, isoVars, magVars, peakVars>>

(***************************************************************************)
(* Michael_Avoid_Noisy_Areas.py: the regular and the avoidance route cell. *)
(***************************************************************************)
\* The routes the directions service can return.
NoisyRoutes == {"route_a", "route_b"}

\* A name the cell has not bound: reading it raises NameError.
Unbound == "unbound"

\* avoidance_route = ""
EmptyString == ""

\* What folium.features.GeoJson(data="") can do.  The string is neither
\* GeoJSON nor the name of a file; the notebook does not say which folium it
\* runs with, so both a raised exception and a layer are taken.
GeoJsonOfEmptyString == {"raises", "added"}

\* The lines the cell prints; print(e) is named by the request that raised e.
RegularMessageNoisy == <<"Generated regular route.">>
AlternativeMessageNoisy == <<"Generated alternative route, which avoids affected areas.">>
ErrorMessage(request) == <<"error", request>>

Layer(name, data) == [name |-> name, data |-> data]

NoisyInit ==
    /\ noisy_pc = "regular"
    /\ optimal_route = Unbound
    /\ avoidance_route = EmptyString
    /\ noisy_layers = <<>>
    /\ noisy_printed = <<>>
    /\ noisy_failed = {}
    /\ noisy_uncaught = "none"

NoisyAt(pc) == nb = "noisy_areas" /\ noisy_pc = pc

\* try: optimal_route = create_route(coordinates, []); the layer; the print.
\* Then the 'Noisy Area' layer and avoidance_route = "".
NoisyRegularRoute ==
    /\ NoisyAt("regular")
    /\ \E route \in NoisyRoutes :
          /\ optimal_route' = route
          /\ noisy_layers' = noisy_layers \o <<Layer("Regular Route", route),
                                               Layer("Noisy Area", "polygons")>>
    /\ noisy_printed' = Append(noisy_printed, RegularMessageNoisy)
    /\ noisy_pc' = "avoidance"
    /\ UNCHANGED <<avoidance_route, noisy_failed, noisy_uncaught, outsideNoisy>>

\* create_route raises: except Exception as e: print(e); optimal_route is
\* not assigned.
NoisyRegularRaises ==
    /\ NoisyAt("regular")
    /\ noisy_printed' = Append(noisy_printed, ErrorMessage("regular"))
    /\ noisy_failed' = noisy_failed \cup {"regular"}
    /\ noisy_layers' = Append(noisy_layers, Layer("Noisy Area", "polygons"))
    /\ noisy_pc' = "avoidance"
    /\ UNCHANGED <<optimal_route, avoidance_route, noisy_uncaught, outsideNoisy>>

\* try: avoidance_route = create_route(coordinates, avoided_polygons_series.tolist())
NoisyAvoidanceRoute ==
    /\ NoisyAt("avoidance")
    /\ avoidance_route' \in NoisyRoutes
    /\ noisy_pc' = "compare"
    /\ UNCHANGED <<optimal_route, noisy_layers, noisy_printed, noisy_failed,
                   noisy_uncaught, outsideNoisy>>

\* except Exception as e: print(e); avoidance_route stays "".
NoisyAvoidanceRaises ==
    /\ NoisyAt("avoidance")
    /\ noisy_printed' = Append(noisy_printed, ErrorMessage("avoidance"))
    /\ noisy_failed' = noisy_failed \cup {"avoidance"}
    /\ noisy_pc' = "compare"
    /\ UNCHANGED <<optimal_route, avoidance_route, noisy_layers, noisy_uncaught,
                   outsideNoisy>>

\* if avoidance_route != optimal_route: reading optimal_route while it is
\* not bound raises NameError.
NoisyCompareNameError ==
    /\ NoisyAt("compare")
    /\ optimal_route = Unbound
    /\ noisy_pc' = "aborted"
    /\ noisy_uncaught' = "NameError"
    /\ UNCHANGED <<optimal_route, avoidance_route, noisy_layers, noisy_printed,
                   noisy_failed, outsideNoisy>>

\* The two values are equal: the block is passed over.
NoisyCompareEqual ==
    /\ NoisyAt("compare")
    /\ optimal_route # Unbound
    /\ avoidance_route = optimal_route
    /\ noisy_pc' = "done"
    /\ UNCHANGED <<optimal_route, avoidance_route, noisy_layers, noisy_printed,
                   noisy_failed, noisy_uncaught, outsideNoisy>>

\* The two values differ and avoidance_route is a route: the layer, the print.
NoisyCompareDiffers ==
    /\ NoisyAt("compare")
    /\ optimal_route # Unbound
    /\ avoidance_route # optimal_route
    /\ avoidance_route # EmptyString
    /\ noisy_layers' = Append(noisy_layers, Layer("Alternative Route", avoidance_route))
    /\ noisy_printed' = Append(noisy_printed, AlternativeMessageNoisy)
    /\ noisy_pc' = "done"
    /\ UNCHANGED <<optimal_route, avoidance_route, noisy_failed, noisy_uncaught,
                   outsideNoisy>>

\* The two values differ because avoidance_route is still "": the block is
\* entered with data="".
NoisyCompareEmptyString ==
    /\ NoisyAt("compare")
    /\ optimal_route # Unbound
    /\ avoidance_route = EmptyString
    /\ \E outcome \in GeoJsonOfEmptyString :
          IF outcome = "raises"
          THEN /\ noisy_pc' = "aborted"
               /\ noisy_uncaught' = "GeoJsonError"
               /\ UNCHANGED <<noisy_layers, noisy_printed>>
          ELSE /\ noisy_layers' = Append(noisy_layers,
                                         Layer("Alternative Route", avoidance_route))
               /\ noisy_printed' = Append(noisy_printed, AlternativeMessageNoisy)
               /\ noisy_pc' = "done"
               /\ UNCHANGED noisy_uncaught
    /\ UNCHANGED <<optimal_route, avoidance_route, noisy_failed, outsideNoisy>>

(***************************************************************************)
(* Health_Care_Access_Madagascar.py: population and population with access *)
(* per district.  These cells read the files the cells above have written: *)
(* the districts, and the isochrone pieces per district.  zonal_stats       *)
(* gives one element per feature of the file, with its 'fid' and the 'sum'  *)
(* of the population raster over it.                                        *)
(***************************************************************************)
Districts == 1..MaxDistricts

\* The sums zonal_stats can give for a zone.
Sums == 0..MaxPopulation

\* A Python float that is the quotient of two numbers, kept as the pair;
\* 0.0 is Ratio(0, 1).
Ratio(num, den) == [num |-> num, den |-> den]

\* The record of a district as the dictionary cell creates it.
DistrictRecord ==
    [count |-> 0,
     car |-> 0, car_pct |-> Ratio(0, 1),
     foot |-> 0, foot_pct |-> Ratio(0, 1)]

\* pop_iso = districts_dictionary[district_id]['...: Pop. with access'] + element['sum']
AccessAfterPieceOnly(access, piece_sum) == piece_sum

AccessAfter(access, piece_sum) == access + piece_sum

\* 100 * pop_iso / pop_total
Percentage(pop_iso, pop_total) == Ratio(100 * pop_iso, pop_total)

\* The try block of one element for the profile: the two assignments and the
\* division in the order of the code.  Division by zero raises after the
\* first assignment is done; the bare except passes.
AccessUpdated(record, p, piece_sum) ==
    LET pop_iso == AccessAfter(record[p], piece_sum)
        pop_total == record.count
        pct == IF p = "car" THEN "car_pct" ELSE "foot_pct"
        first == [record EXCEPT ![p] = pop_iso]
    IN IF pop_total = 0
       THEN first
       ELSE [first EXCEPT ![pct] = Percentage(pop_iso, pop_total)]

AccInit ==
    /\ acc_pc = "population"
    /\ districts_dictionary = [dt \in Districts |-> DistrictRecord]
    /\ element_idx = 0
    /\ total_population = 0
    /\ pieces_read = [p \in Profiles |-> [dt \in Districts |-> 0]]

AccAt(pc) == nb = "madagascar_access" /\ acc_pc = pc

\* for element in stats: one element per district, in the order of the file.
AccPopulationCount ==
    /\ AccAt("population")
    /\ element_idx < MaxDistricts
    /\ \E element_sum \in Sums :
          /\ districts_dictionary' =
                [districts_dictionary EXCEPT ![element_idx + 1].count = element_sum]
          /\ total_population' = total_population + element_sum
    /\ element_idx' = element_idx + 1
    /\ UNCHANGED <<acc_pc, pieces_read, outsideAcc>>

AccPopulationEnd ==
    /\ AccAt("population")
    /\ element_idx = MaxDistricts
    /\ acc_pc' = "car"
    /\ element_idx' = 0
    /\ UNCHANGED <<districts_dictionary, total_population, pieces_read, outsideAcc>>

\* One iteration of for element in stats_car / stats_foot: the element is a
\* piece of district_id with the sum element_sum.
AccElement(p, district_id, element_sum) ==
    /\ AccAt(p)
    /\ element_idx < MaxPieces
    /\ districts_dictionary' =
          [districts_dictionary EXCEPT ![district_id] = AccessUpdated(@, p, element_sum)]
    /\ pieces_read' = [pieces_read EXCEPT ![p][district_id] = @ + element_sum]
    /\ element_idx' = element_idx + 1

AccCarElement ==
    \E district_id \in Districts, element_sum \in Sums :
        /\ AccElement("car", district_id, element_sum)
        /\ UNCHANGED <<acc_pc, total_population, outsideAcc>>

\* The list is exhausted, after any number of elements.
AccCarEnd ==
    /\ AccAt("car")
    /\ acc_pc' = "foot"
    /\ element_idx' = 0
    /\ UNCHANGED <<districts_dictionary, total_population, pieces_read, outsideAcc>>

AccFootElement ==
    \E district_id \in Districts, element_sum \in Sums :
        /\ AccElement("foot", district_id, element_sum)
        /\ UNCHANGED <<acc_pc, total_population, outsideAcc>>

AccFootEnd ==
    /\ AccAt("foot")
    /\ acc_pc' = "done"
    /\ UNCHANGED <<districts_dictionary, element_idx, total_population, pieces_read,
                   outsideAcc>>

(***************************************************************************)
(* Apartment_Search.py: POIs per apartment and category, the routes to     *)
(* them, and the sum of the shortest ones.                                 *)
(***************************************************************************)
\* apartments = {'first': ..., 'second': ..., 'third': ...}, in this order.
ApartmentNames == <<"first", "second", "third">>

\* categories_poi, in this order.
CategoryNames == <<"kindergarten", "supermarket", "hairdresser">>

\* The durations a route can have, in seconds.
Durations == {300, 600}

\* The lists of POIs ors.places can return: POIs 1..n.
PoiLists == {[k \in 1..n |-> k] : n \in 0..MaxPois}

\* The names of the dictionary in its order: a deleted key leaves the order
\* of the others as it was.
NamesIn(dict) == SelectSeq(ApartmentNames, LAMBDA name : name \in DOMAIN dict)

\* min(xs) of a list that is not empty.
RECURSIVE PyMin(_)
PyMin(xs) ==
    IF Len(xs) = 1 THEN xs[1]
    ELSE LET rest == PyMin(Tail(xs))
         IN IF xs[1] <= rest THEN xs[1] ELSE rest

\* sum(xs)
RECURSIVE PySum(_)
PySum(xs) == IF xs = <<>> THEN 0 ELSE xs[1] + PySum(Tail(xs))

\* del apartments['second']
Removed(dict) == [name \in DOMAIN dict \ {"second"} |-> dict[name]]

AptInit ==
    /\ apt_pc = "pois"
    /\ apartments = [name \in Range(ApartmentNames) |-> <<>>]
    /\ apt_at = <<1, 1>>
    /\ shortest_sum = <<>>
    /\ apt_uncaught = "none"

AptAt(pc) == nb = "apartment_search" /\ apt_pc = pc

\* The position after <<a, c>> in the two nested loops over dict.
NextAt(a, c) == IF c < Len(CategoryNames) THEN <<a, c + 1>> ELSE <<a + 1, 1>>

\* apt['categories'][typ]['geojson'] = ors.places(**params_poi)[0]['features']
AptPlaces ==
    /\ AptAt("pois")
    /\ apt_at[1] <= Len(ApartmentNames)
    /\ \E pois \in PoiLists :
          apartments' = [apartments EXCEPT ![ApartmentNames[apt_at[1]]] =
                            Append(@, [typ |-> CategoryNames[apt_at[2]],
                                       geojson |-> pois, durations |-> <<>>])]
    /\ apt_at' = NextAt(apt_at[1], apt_at[2])
    /\ UNCHANGED <<apt_pc, shortest_sum, apt_uncaught, outsideApt>>

\* ors.places raises: no try around it.
AptPlacesRaises ==
    /\ AptAt("pois")
    /\ apt_at[1] <= Len(ApartmentNames)
    /\ apt_pc' = "aborted"
    /\ apt_uncaught' = "RequestError"
    /\ UNCHANGED <<apartments, apt_at, shortest_sum, outsideApt>>

\* The POI loops are exhausted; del apartments['second'].
AptRemoveSecond ==
    /\ AptAt("pois")
    /\ apt_at[1] > Len(ApartmentNames)
    /\ apartments' = Removed(apartments)
    /\ apt_pc' = "routes"
    /\ apt_at' = <<1, 1>>
    /\ UNCHANGED <<shortest_sum, apt_uncaught, outsideApt>>

\* The category the route loops are at.
AptCell == apartments[NamesIn(apartments)[apt_at[1]]][apt_at[2]]

\* for poi in pois['geojson']: json_route = ors.directions(...), and
\* pois['durations'].append(poi_duration).
AptRoute ==
    /\ AptAt("routes")
    /\ apt_at[1] <= Len(NamesIn(apartments))
    /\ Len(AptCell.durations) < Len(AptCell.geojson)
    /\ \E poi_duration \in Durations :
          apartments' = [apartments EXCEPT
                            ![NamesIn(apartments)[apt_at[1]]][apt_at[2]].durations =
                                Append(@, poi_duration)]
    /\ UNCHANGED <<apt_pc, apt_at, shortest_sum, apt_uncaught, outsideApt>>

\* ors.directions raises, or its response holds no duration: no try.
AptRouteRaises ==
    /\ AptAt("routes")
    /\ apt_at[1] <= Len(NamesIn(apartments))
    /\ Len(AptCell.durations) < Len(AptCell.geojson)
    /\ apt_pc' = "aborted"
    /\ apt_uncaught' = "RequestError"
    /\ UNCHANGED <<apartments, apt_at, shortest_sum, outsideApt>>

\* The POIs of the category are exhausted: the next category, or apartment.
AptNextCategory ==
    /\ AptAt("routes")
    /\ apt_at[1] <= Len(NamesIn(apartments))
    /\ Len(AptCell.durations) = Len(AptCell.geojson)
    /\ apt_at' = NextAt(apt_at[1], apt_at[2])
    /\ UNCHANGED <<apt_pc, apartments, shortest_sum, apt_uncaught, outsideApt>>

AptRoutesEnd ==
    /\ AptAt("routes")
    /\ apt_at[1] > Len(NamesIn(apartments))
    /\ apt_pc' = "sum"
    /\ apt_at' = <<1, 1>>
    /\ UNCHANGED <<apartments, shortest_sum, apt_uncaught, outsideApt>>

\* apt['shortest_sum'] = sum([min(cat['durations']) for cat in
\* apt['categories'].values()]); min of an empty list raises ValueError.
AptShortestSum ==
    /\ AptAt("sum")
    /\ apt_at[1] <= Len(NamesIn(apartments))
    /\ LET name == NamesIn(apartments)[apt_at[1]]
           categories == apartments[name]
       IN IF \E k \in 1..Len(categories) : categories[k].durations = <<>>
          THEN /\ apt_pc' = "aborted"
               /\ apt_uncaught' = "ValueError"
               /\ UNCHANGED <<shortest_sum, apt_at>>
          ELSE /\ shortest_sum' =
                     [n \in DOMAIN shortest_sum \cup {name} |->
                         IF n = name
                         THEN PySum([k \in 1..Len(categories) |->
                                        PyMin(categories[k].durations)])
                         ELSE shortest_sum[n]]
               /\ apt_at' = <<apt_at[1] + 1, 1>>
               /\ UNCHANGED <<apt_pc, apt_uncaught>>
    /\ UNCHANGED <<apartments, outsideApt>>

AptSumEnd ==
    /\ AptAt("sum")
    /\ apt_at[1] > Len(NamesIn(apartments))
    /\ apt_pc' = "done"
    /\ UNCHANGED <<apartments, apt_at, shortest_sum, apt_uncaught, outsideApt>>

(***************************************************************************)
(* ortools_pubcrawl.py: addresses, matrix, the solver and the extraction   *)
(* of its route.  Nodes and indices count from 0 as in the code; lists are *)
(* sequences, so xs[i] of the code is xs[i + 1].                           *)
(***************************************************************************)
\* start = 0
StartNode == 0

\* The feature of the k-th pub of the response: its coordinates and the name
\* geocoding gives for them.
PubFeature(k) == [coordinates |-> <<k, 0 - k>>, name |-> k]

\* ors.places(**query)['features']
PlacesResponses == {[k \in 1..n |-> PubFeature(k)] : n \in 0..MaxPubs}

\* xs[i] for a list xs and i counted from 0.
At(xs, i) == xs[i + 1]

\* manager.IndexToNode(index) of RoutingIndexManager(tsp_size, 1, start): the
\* indices 0..tsp_size-1 are the nodes, the index tsp_size is the end of the
\* route, which is the start node.
IndexToNode(tsp_size, idx) == IF idx = tsp_size THEN StartNode ELSE idx

\* The round trips over the nodes 0..tsp_size-1 from the start node.
Tours(tsp_size) ==
    {t \in [1..tsp_size -> 0..(tsp_size - 1)] :
        /\ t[1] = StartNode
        /\ \A i, j \in 1..tsp_size : i # j => t[i] # t[j]}

\* The values of the NextVar variables for a round trip: the index that
\* follows each index, the end index after the last.
Successors(tsp_size, t) ==
    [idx \in 0..(tsp_size - 1) |->
        LET k == CHOOSE k \in 1..tsp_size : t[k] = idx
        IN IF k = tsp_size THEN tsp_size ELSE t[k + 1]]

\* routing.Solve(): a solution, for any round trip, or none.
NoAssignment == [found |-> FALSE, next |-> <<>>]
Solutions(tsp_size) ==
    {[found |-> TRUE, next |-> Successors(tsp_size, t)] : t \in Tours(tsp_size)}
        \cup {NoAssignment}

\* index = assignment.Value(routing.NextVar(index))
NextIndexByCount(solution, idx) == idx + 1

NextIndex(solution, idx) == solution.next[idx]

PubInit ==
    /\ pub_pc = "addresses"
    /\ pubs_smoker \in IF nb = "pubcrawl" THEN PlacesResponses ELSE {<<>>}
    /\ pubs_addresses = <<>>
    /\ pubs_coords = <<>>
    /\ assignment = NoAssignment
    /\ pub_index = 0
    /\ optimal_coords = <<>>
    /\ pub_route = <<>>

PubAt(pc) == nb = "pubcrawl" /\ pub_pc = pc

\* for feat in pubs_smoker: name = ors.pelias_reverse(...); pubs_addresses.append(name)
PubAddress ==
    /\ PubAt("addresses")
    /\ Len(pubs_addresses) < Len(pubs_smoker)
    /\ pubs_addresses' = Append(pubs_addresses, pubs_smoker[Len(pubs_addresses) + 1].name)
    /\ UNCHANGED <<pub_pc, pubs_smoker, pubs_coords, assignment, pub_index, optimal_coords,
                   pub_route, outsidePub>>

\* ors.pelias_reverse raises, or ['features'][0] of its response does.
PubAddressRaises ==
    /\ PubAt("addresses")
    /\ Len(pubs_addresses) < Len(pubs_smoker)
    /\ pub_pc' = "aborted"
    /\ UNCHANGED <<pubs_smoker, pubs_addresses, pubs_coords, assignment, pub_index,
                   optimal_coords, pub_route, outsidePub>>

PubAddressesEnd ==
    /\ PubAt("addresses")
    /\ Len(pubs_addresses) = Len(pubs_smoker)
    /\ pub_pc' = "matrix"
    /\ UNCHANGED <<pubs_smoker, pubs_addresses, pubs_coords, assignment, pub_index,
                   optimal_coords, pub_route, outsidePub>>

\* pubs_coords = [feat['geometry']['coordinates'] for feat in pubs_smoker];
\* pubs_matrix = ors.distance_matrix(**request).  tsp_size = len(pubs_addresses);
\* if tsp_size > 0: the solver is set up, else the cell ends.
PubMatrix ==
    /\ PubAt("matrix")
    /\ pubs_coords' = [k \in 1..Len(pubs_smoker) |-> pubs_smoker[k].coordinates]
    /\ pub_pc' = IF Len(pubs_addresses) > 0 THEN "solve" ELSE "done"
    /\ UNCHANGED <<pubs_smoker, pubs_addresses, assignment, pub_index, optimal_coords,
                   pub_route, outsidePub>>

\* ors.distance_matrix raises (for no location, or too many).
PubMatrixRaises ==
    /\ PubAt("matrix")
    /\ pub_pc' = "aborted"
    /\ UNCHANGED <<pubs_smoker, pubs_addresses, pubs_coords, assignment, pub_index,
                   optimal_coords, pub_route, outsidePub>>

\* assignment = routing.Solve(); if assignment: index = routing.Start(start)
PubSolve ==
    /\ PubAt("solve")
    /\ \E solution \in Solutions(Len(pubs_addresses)) :
          /\ assignment' = solution
          /\ pub_pc' = IF solution.found THEN "extract" ELSE "done"
    /\ pub_index' = StartNode
    /\ UNCHANGED <<pubs_smoker, pubs_addresses, pubs_coords, optimal_coords, pub_route,
                   outsidePub>>

\* for node in range(routing.nodes()): one iteration.
PubExtract ==
    /\ PubAt("extract")
    /\ Len(optimal_coords) < Len(pubs_addresses)
    /\ optimal_coords' =
          Append(optimal_coords, At(pubs_coords, IndexToNode(Len(pubs_addresses), pub_index)))
    /\ pub_route' = Append(pub_route, At(pubs_addresses, IndexToNode(Len(pubs_addresses), pub_index)))
    /\ pub_index' = NextIndex(assignment, pub_index)
    /\ UNCHANGED <<pub_pc, pubs_smoker, pubs_addresses, pubs_coords, assignment,
                   outsidePub>>

\* After the loop: the name and the coordinates of the index at hand.
PubExtractEnd ==
    /\ PubAt("extract")
    /\ Len(optimal_coords) = Len(pubs_addresses)
    /\ pub_route' = Append(pub_route, At(pubs_addresses, IndexToNode(Len(pubs_addresses), pub_index)))
    /\ optimal_coords' =
          Append(optimal_coords, At(pubs_coords, IndexToNode(Len(pubs_addresses), pub_index)))
    /\ pub_pc' = "done"
    /\ UNCHANGED <<pubs_smoker, pubs_addresses, pubs_coords, assignment, pub_index,
                   outsidePub>>

(***************************************************************************)
(* export_endpoint_centrality.py: the edges dictionary, the line map, the  *)
(* graph and the two centrality maps.                                      *)
(***************************************************************************)
\* The two edges of the western bridge, as the removal cell names them.
BridgeEdges == <<<<19266968, 1039877>>, <<181908, 181913>>>>

\* resp['nodes']: the node ids of the export.
NodeIds == {19266968, 1039877, 181908, 181913}

\* node['location'] as [lon, lat]: twice a whole number each, so that the
\* midpoint of two nodes is a whole number and differs from pair to pair.
Location(node) == <<2 * node, 2 * (node % 1000)>>

\* points[node['nodeId']] = list(reversed(node['location']))
Point(node) == Reversed(Location(node))

\* The directed edges an export is made of: the two bridge edges, the reverse
\* of the first, edges between the two sides in either direction and a loop.
Roads ==
    {BridgeEdges[1], BridgeEdges[2], <<1039877, 19266968>>, <<1039877, 181908>>,
     <<181908, 1039877>>, <<181913, 19266968>>, <<181913, 181913>>}

\* The exports: lists of roads, with parallel edges; the weight of an edge is
\* its place in the list.
Exports ==
    UNION {[1..n -> Roads] : n \in 0..MaxEdges}

Edge(export, k) == [fromId |-> export[k][1], toId |-> export[k][2], weight |-> k]

\* dict.keys() of a list of items.
Keys(items, field) == {items[k][field] : k \in 1..Len(items)}

\* The place of the key in a list of items that has it.
Place(items, field, key) == CHOOSE k \in 1..Len(items) : items[k][field] = key

\* dict.get(key, []) for the dictionary edges: the targets of the key.
GetTargets(dict, key) ==
    IF key \in Keys(dict, "fromId") THEN dict[Place(dict, "fromId", key)].targets ELSE <<>>

\* targets[toId] = weight: a key the dictionary has keeps its place.
SetItem(targets, toId, weight) ==
    IF toId \in Keys(targets, "toId")
    THEN [targets EXCEPT ![Place(targets, "toId", toId)].weight = weight]
    ELSE Append(targets, [toId |-> toId, weight |-> weight])

\* edges.setdefault(fromId, {}); edges[fromId][toId] = weight
SetEdge(dict, fromId, toId, weight) ==
    IF fromId \in Keys(dict, "fromId")
    THEN [dict EXCEPT ![Place(dict, "fromId", fromId)].targets = SetItem(@, toId, weight)]
    ELSE Append(dict, [fromId |-> fromId, targets |-> SetItem(<<>>, toId, weight)])

\* edges[fromId].pop(toId)
PoppedNothing(dict, fromId, toId) == dict

Popped(dict, fromId, toId) ==
    [dict EXCEPT ![Place(dict, "fromId", fromId)].targets =
        SelectSeq(@, LAMBDA item : item.toId # toId)]

\* for fromId, values in edges.items(): for toId, weight in values.items():
\* the triples in the order the two loops meet them.
RECURSIVE Items(_)
Items(dict) ==
    IF dict = <<>> THEN <<>>
    ELSE [k \in 1..Len(dict[1].targets) |->
             [fromId |-> dict[1].fromId, toId |-> dict[1].targets[k].toId,
              weight |-> dict[1].targets[k].weight]] \o Items(Tail(dict))

\* if fromId in edges.get(toId, [])
ReverseAlways(dict, fromId, toId) == TRUE

ReverseExists(dict, fromId, toId) == fromId \in Keys(GetTargets(dict, toId), "toId")

\* mid = [sum(x)/2 for x in zip(points[fromId], points[toId])]
Mid(fromId, toId) ==
    [k \in 1..2 |-> (Point(fromId)[k] + Point(toId)[k]) \div 2]

\* folium.PolyLine and folium.Marker, as added to a map.
PolyLine(locations, fromId, toId, weight) ==
    [kind |-> "line", locations |-> locations, fromId |-> fromId, toId |-> toId,
     weight |-> weight]
Marker(location) == [kind |-> "x", locations |-> <<location>>]

\* What one pass of the line map loop adds for the item.
LinesOf(dict, item) ==
    IF ReverseExists(dict, item.fromId, item.toId)
    THEN <<PolyLine(<<Mid(item.fromId, item.toId), Point(item.toId)>>,
                    item.fromId, item.toId, item.weight),
           Marker(Mid(item.fromId, item.toId))>>
    ELSE <<PolyLine(<<Point(item.fromId), Point(item.toId)>>,
                    item.fromId, item.toId, item.weight)>>

\* What one pass of a centrality map loop adds for the item.
CentralityLineOf(dict, item) ==
    IF ReverseExists(dict, item.fromId, item.toId)
    THEN PolyLine(<<Mid(item.fromId, item.toId), Point(item.toId)>>,
                  item.fromId, item.toId, item.weight)
    ELSE PolyLine(<<Point(item.fromId), Point(item.toId)>>,
                  item.fromId, item.toId, item.weight)

\* nx.edge_betweenness_centrality(g): a value for every edge of g; whether
\* all the values are equal depends on the graph.
Centralities(graph) == {[keys |-> graph, flat |-> flat] : flat \in BOOLEAN}

ExpInit ==
    /\ exp_pc = "edges"
    /\ resp \in IF nb = "export_endpoint" THEN Exports ELSE {<<>>}
    /\ edges = <<>>
    /\ exp_i = 0
    /\ lineMap = <<>>
    /\ g = {}
    /\ edge_centralities = [keys |-> {}, flat |-> FALSE]
    /\ centralityMap = <<>>
    /\ exp_maps = 0
    /\ exp_uncaught = "none"

ExpAt(pc) == nb = "export_endpoint" /\ exp_pc = pc

\* for edge in resp['edges']: edges.setdefault(fromId, {}); edges[fromId][toId] = weight
ExpAddEdge ==
    /\ ExpAt("edges")
    /\ exp_i < Len(resp)
    /\ LET edge == Edge(resp, exp_i + 1)
       IN edges' = SetEdge(edges, edge.fromId, edge.toId, edge.weight)
    /\ exp_i' = exp_i + 1
    /\ UNCHANGED <<exp_pc, resp, lineMap, g, edge_centralities, centralityMap, exp_maps,
                   exp_uncaught, outsideExp>>

ExpEdgesEnd ==
    /\ ExpAt("edges")
    /\ exp_i = Len(resp)
    /\ exp_pc' = "linemap"
    /\ exp_i' = 0
    /\ UNCHANGED <<resp, edges, lineMap, g, edge_centralities, centralityMap, exp_maps,
                   exp_uncaught, outsideExp>>

\* One pass of the line map loops.
ExpDrawLine ==
    /\ ExpAt("linemap")
    /\ exp_i < Len(Items(edges))
    /\ lineMap' = lineMap \o LinesOf(edges, Items(edges)[exp_i + 1])
    /\ exp_i' = exp_i + 1
    /\ UNCHANGED <<exp_pc, resp, edges, g, edge_centralities, centralityMap, exp_maps,
                   exp_uncaught, outsideExp>>

ExpLineMapEnd ==
    /\ ExpAt("linemap")
    /\ exp_i = Len(Items(edges))
    /\ exp_pc' = "graph"
    /\ exp_i' = 0
    /\ UNCHANGED <<resp, edges, lineMap, g, edge_centralities, centralityMap, exp_maps,
                   exp_uncaught, outsideExp>>

\* g = nx.DiGraph(); for edge in resp['edges']: g.add_edge(...);
\* edge_centralities = nx.edge_betweenness_centrality(g)
ExpGraph ==
    /\ ExpAt("graph")
    /\ g' = {<<Edge(resp, k).fromId, Edge(resp, k).toId>> : k \in 1..Len(resp)}
    /\ edge_centralities' \in Centralities(g')
    /\ exp_pc' = "map1"
    /\ UNCHANGED <<resp, edges, exp_i, lineMap, centralityMap, exp_maps, exp_uncaught,
                   outsideExp>>

\* One step of a centrality map cell.  min(edge_centralities.values()) of no
\* value raises ValueError; in the loop the tooltip reads
\* edge_centralities[(fromId, toId)], KeyError without the key, and the colour
\* divides by diff, ZeroDivisionError when all values are equal.
ExpCentralityStep(map_pc, next_pc) ==
    /\ ExpAt(map_pc)
    /\ IF edge_centralities.keys = {}
       THEN /\ exp_pc' = "aborted"
            /\ exp_uncaught' = "ValueError"
            /\ UNCHANGED <<exp_i, centralityMap, exp_maps>>
       ELSE IF exp_i = Len(Items(edges))
       THEN /\ exp_pc' = next_pc
            /\ exp_i' = 0
            /\ exp_maps' = exp_maps + 1
            /\ UNCHANGED <<centralityMap, exp_uncaught>>
       ELSE LET item == Items(edges)[exp_i + 1]
            IN IF <<item.fromId, item.toId>> \notin edge_centralities.keys
               THEN /\ exp_pc' = "aborted"
                    /\ exp_uncaught' = "KeyError"
                    /\ UNCHANGED <<exp_i, centralityMap, exp_maps>>
               ELSE IF edge_centralities.flat
               THEN /\ exp_pc' = "aborted"
                    /\ exp_uncaught' = "ZeroDivisionError"
                    /\ UNCHANGED <<exp_i, centralityMap, exp_maps>>
               ELSE /\ centralityMap' =
                          Append(IF exp_i = 0 THEN <<>> ELSE centralityMap,
                                 CentralityLineOf(edges, item))
                    /\ exp_i' = exp_i + 1
                    /\ UNCHANGED <<exp_pc, exp_maps, exp_uncaught>>

ExpFirstMap ==
    /\ ExpCentralityStep("map1", "remove")
    /\ UNCHANGED <<resp, edges, lineMap, g, edge_centralities, outsideExp>>

\* g.remove_edge(19266968, 1039877); g.remove_edge(181908, 181913);
\* _ = edges[19266968].pop(1039877); _ = edges[181908].pop(181913);
\* edge_centralities = nx.edge_betweenness_centrality(g).  remove_edge of an
\* edge the graph has not raises NetworkXError.
ExpRemoveBridges ==
    /\ ExpAt("remove")
    /\ IF BridgeEdges[1] \notin g
       THEN /\ exp_pc' = "aborted"
            /\ exp_uncaught' = "NetworkXError"
            /\ UNCHANGED <<g, edges, edge_centralities>>
       ELSE IF BridgeEdges[2] \notin g \ {BridgeEdges[1]}
       THEN /\ g' = g \ {BridgeEdges[1]}
            /\ exp_pc' = "aborted"
            /\ exp_uncaught' = "NetworkXError"
            /\ UNCHANGED <<edges, edge_centralities>>
       ELSE /\ g' = g \ {BridgeEdges[1], BridgeEdges[2]}
            /\ edges' = Popped(Popped(edges, BridgeEdges[1][1], BridgeEdges[1][2]),
                               BridgeEdges[2][1], BridgeEdges[2][2])
            /\ edge_centralities' \in Centralities(g')
            /\ exp_pc' = "map2"
            /\ UNCHANGED exp_uncaught
    /\ UNCHANGED <<resp, exp_i, lineMap, centralityMap, exp_maps, outsideExp>>

ExpSecondMap ==
    /\ ExpCentralityStep("map2", "done")
    /\ UNCHANGED <<resp, edges, lineMap, g, edge_centralities, outsideExp>>

(***************************************************************************)
(* Centrality_healthcare.py: the routes from the start points to the       *)
(* hospitals and the centrality of the edges they use.                     *)
(***************************************************************************)
\* graph_data['nodes']: the node ids of the exported graph.
HcNodes == {1, 2, 3}

\* The edges an exported graph is made of, and their travel_time: the way
\* from 1 to 3 over 2 is faster than the edge from 1 to 3.
HcRoads == {<<1, 2>>, <<2, 1>>, <<2, 3>>, <<1, 3>>}
TravelTime(edge) == IF edge = <<1, 3>> THEN 3 ELSE 1

\* The exported graphs: those with an edge.
Graphs == (SUBSET HcRoads) \ {{}}

\* The rows of a frame of points, each known by its nearest node:
\* ox.nearest_nodes(ors_graph, Y=..., X=...).
Rows(most) == UNION {[1..n -> HcNodes] : n \in 0..most}

\* The edges (u, v) along a list of nodes.
EdgesAlong(nodes) == [k \in 1..(Len(nodes) - 1) |-> <<nodes[k], nodes[k + 1]>>]

\* The paths of the graph from orig to dest that pass no node twice.
Paths(graph, orig, dest) ==
    {path \in UNION {[1..n -> HcNodes] : n \in 1..Cardinality(HcNodes)} :
        /\ path[1] = orig
        /\ path[Len(path)] = dest
        /\ \A j \in 1..Len(path), k \in 1..Len(path) : path[j] = path[k] => j = k
        /\ Range(EdgesAlong(path)) \subseteq graph}

\* The weight of a path: the sum of travel_time over its edges.
PathWeight(path) ==
    PySum([k \in 1..(Len(path) - 1) |-> TravelTime(EdgesAlong(path)[k])])

\* nx.shortest_path(ors_graph, orig, dest, weight="travel_time"): the paths it
\* may return; none when it raises NetworkXNoPath.
ShortestPaths(graph, orig, dest) ==
    {path \in Paths(graph, orig, dest) :
        \A other \in Paths(graph, orig, dest) : PathWeight(path) <= PathWeight(other)}

\* ox.utils_graph.route_to_gdf(ors_graph, route, weight='travel_time'): a row
\* (u, v, key) for every edge of the route; ValueError for a route of one node.
RouteWithoutEdges(route) == Len(route) < 2
RouteToGdf(route) == [k \in 1..(Len(route) - 1) |-> <<route[k], route[k + 1], 1>>]

\* pd.concat(routes)
RECURSIVE Concat(_)
Concat(frames) == IF frames = <<>> THEN <<>> ELSE frames[1] \o Concat(Tail(frames))

\* routes_df.groupby(['u', 'v', 'key']).count()['travel_time']
RouteCount(routes_df) ==
    [row \in Range(routes_df) |->
        Cardinality({k \in 1..Len(routes_df) : routes_df[k] = row})]

\* The least route_count in the place of the greatest.
RouteCountMin(route_count) ==
    CHOOSE m \in {route_count[row] : row \in DOMAIN route_count} :
        \A row \in DOMAIN route_count : m <= route_count[row]

\* edges_df['route_count'].max()
RouteCountMax(route_count) ==
    CHOOSE m \in {route_count[row] : row \in DOMAIN route_count} :
        \A row \in DOMAIN route_count : route_count[row] <= m

\* edges_df.join(route_count); edges_df['centrality'] = edges_df['route_count']
\* / edges_df['route_count'].max(): NaN for the edges no route uses.
Joined(graph, route_count) ==
    [edge \in graph |->
        IF <<edge[1], edge[2], 1>> \in DOMAIN route_count
        THEN [nan |-> FALSE,
              route_count |-> route_count[<<edge[1], edge[2], 1>>],
              centrality |-> Ratio(route_count[<<edge[1], edge[2], 1>>],
                                   RouteCountMax(route_count))]
        ELSE [nan |-> TRUE]]

HcInit ==
    /\ hc_pc = "routes"
    /\ ors_graph \in IF nb = "healthcare_centrality" THEN Graphs ELSE {{}}
    /\ hospitals_df \in IF nb = "healthcare_centrality" THEN Rows(MaxHospitals) ELSE {<<>>}
    /\ hc_start_points \in IF nb = "healthcare_centrality" THEN Rows(MaxStarts) ELSE {<<>>}
    /\ h_idx = 1
    /\ s_idx = 0
    /\ hc_routes = <<>>
    /\ hc_recorded = {}
    /\ hc_printed = <<>>
    /\ edges_df = <<>>
    /\ hc_uncaught = "none"

\* for i, h in hospitals_df.iterrows(): print(h)
HcHospital ==
    /\ nb = "healthcare_centrality"
    /\ hc_pc = "routes"
    /\ h_idx <= Len(hospitals_df)
    /\ s_idx = 0
    /\ hc_printed' = Append(hc_printed, <<"hospital", h_idx>>)
    /\ s_idx' = 1
    /\ UNCHANGED <<hc_pc, ors_graph, hospitals_df, hc_start_points, h_idx, hc_routes,
                   hc_recorded, edges_df, hc_uncaught, outsideHc>>

\* The pair at hand in the inner loop, and the paths shortest_path may return.
HcAtPair ==
    /\ nb = "healthcare_centrality"
    /\ hc_pc = "routes"
    /\ h_idx <= Len(hospitals_df)
    /\ s_idx \in 1..Len(hc_start_points)

HcShortest == ShortestPaths(ors_graph, hc_start_points[s_idx], hospitals_df[h_idx])

\* shortest_path raises: except Exception, continue.
HcNoPath ==
    /\ HcAtPair
    /\ HcShortest = {}
    /\ s_idx' = s_idx + 1
    /\ UNCHANGED <<hc_pc, ors_graph, hospitals_df, hc_start_points, h_idx, hc_routes,
                   hc_recorded, hc_printed, edges_df, hc_uncaught, outsideHc>>

\* route_to_gdf raises ValueError: continue.
HcNoEdges ==
    /\ HcAtPair
    /\ \E route \in HcShortest : RouteWithoutEdges(route)
    /\ s_idx' = s_idx + 1
    /\ UNCHANGED <<hc_pc, ors_graph, hospitals_df, hc_start_points, h_idx, hc_routes,
                   hc_recorded, hc_printed, edges_df, hc_uncaught, outsideHc>>

\* routes.append(route_df)
HcRouteAppended ==
    /\ HcAtPair
    /\ \E route \in HcShortest :
          /\ ~RouteWithoutEdges(route)
          /\ hc_routes' = Append(hc_routes, RouteToGdf(route))
    /\ hc_recorded' = hc_recorded \cup {<<h_idx, s_idx>>}
    /\ s_idx' = s_idx + 1
    /\ UNCHANGED <<hc_pc, ors_graph, hospitals_df, hc_start_points, h_idx, hc_printed,
                   edges_df, hc_uncaught, outsideHc>>

\* The inner loop is exhausted: the next hospital.
HcStartsEnd ==
    /\ nb = "healthcare_centrality"
    /\ hc_pc = "routes"
    /\ h_idx <= Len(hospitals_df)
    /\ s_idx = Len(hc_start_points) + 1
    /\ h_idx' = h_idx + 1
    /\ s_idx' = 0
    /\ UNCHANGED <<hc_pc, ors_graph, hospitals_df, hc_start_points, hc_routes,
                   hc_recorded, hc_printed, edges_df, hc_uncaught, outsideHc>>

\* routes_df = pd.concat(routes), ValueError for an empty list; route_count;
\* edges_df.join(route_count); edges_df['centrality'].
HcCentrality ==
    /\ nb = "healthcare_centrality"
    /\ hc_pc = "routes"
    /\ h_idx = Len(hospitals_df) + 1
    /\ IF hc_routes = <<>>
       THEN /\ hc_pc' = "aborted"
            /\ hc_uncaught' = "ValueError"
            /\ UNCHANGED edges_df
       ELSE /\ edges_df' = Joined(ors_graph, RouteCount(Concat(hc_routes)))
            /\ hc_pc' = "done"
            /\ UNCHANGED hc_uncaught
    /\ UNCHANGED <<ors_graph, hospitals_df, hc_start_points, h_idx, s_idx, hc_routes,
                   hc_recorded, hc_printed, outsideHc>>

\* The directed edges (u, v) of the export.
ExportEdges == {<<Edge(resp, k).fromId, Edge(resp, k).toId>> : k \in 1..Len(resp)}

\* The places of lineMap that hold the line of the edge (u, v).
LinesFor(u, v) ==
    {k \in 1..Len(lineMap) :
        lineMap[k].kind = "line" /\ lineMap[k].fromId = u /\ lineMap[k].toId = v}

\* C16: once the line map loop has ended, lineMap holds exactly one line for
\* every directed edge (u, v) of the export and none for any other pair; the
\* line runs from the midpoint to v and an 'x' marker sits at the midpoint if
\* and only if the reverse edge (v, u) is in the export too, and the line runs
\* from u to v otherwise.
C16_OneLinePerDirectedEdge ==
    (nb = "export_endpoint" /\ exp_pc \notin {"edges", "linemap"}) =>
        \A u \in NodeIds, v \in NodeIds :
            IF <<u, v>> \in ExportEdges
            THEN /\ Cardinality(LinesFor(u, v)) = 1
                 /\ \A k \in LinesFor(u, v) :
                        lineMap[k].locations =
                            IF <<v, u>> \in ExportEdges
                            THEN <<Mid(u, v), Point(v)>>
                            ELSE <<Point(u), Point(v)>>
                 /\ (<<v, u>> \in ExportEdges) <=>
                        (\E k \in 1..Len(lineMap) : lineMap[k] = Marker(Mid(u, v)))
            ELSE LinesFor(u, v) = {}

\* An export with an edge in both directions and an edge in one direction
\* only, all drawn.
C16_Witness ==
    /\ nb = "export_endpoint"
    /\ exp_pc = "graph"
    /\ \E u \in NodeIds, v \in NodeIds :
          u # v /\ <<u, v>> \in ExportEdges /\ <<v, u>> \in ExportEdges
    /\ \E u \in NodeIds, v \in NodeIds :
          <<u, v>> \in ExportEdges /\ <<v, u>> \notin ExportEdges

\* The pairs (fromId, toId) of the dictionary edges.
EdgePairs == {<<Items(edges)[k].fromId, Items(edges)[k].toId>> : k \in 1..Len(Items(edges))}

\* C17: in the cells of the two centrality maps, before and after the removal
\* of the two bridge edges, the pairs of edges are the edges of g and the keys
\* of edge_centralities, and no lookup of a drawn edge raises KeyError.
C17_EdgesOfTheDictionaryAndTheGraph ==
    /\ exp_uncaught # "KeyError"
    /\ (nb = "export_endpoint" /\ exp_pc \in {"map1", "remove", "map2", "done"}) =>
           /\ EdgePairs = g
           /\ edge_centralities.keys = g

\* Both maps were drawn, the second one without the bridge and with a line.
C17_Witness ==
    /\ nb = "export_endpoint"
    /\ exp_pc = "done"
    /\ exp_maps = 2
    /\ BridgeEdges[1] \notin g /\ BridgeEdges[2] \notin g
    /\ Len(centralityMap) >= 1
    /\ EdgePairs = g


\* The loop of the re-routing cell was left by a request that raised: the
\* cell has ended with a flood tweet still at hand.
RerouteRaised ==
    /\ nb = "magdeburg"
    /\ mag_pc = "done"
    /\ tweet_idx \in flood_tweets

\* C18: when a route request inside the loop has raised, the apology is what
\* was printed after the message of the regular route, the success message
\* was not printed, no 'Alternative Route' layer was added and the
\* 'Regular Route' layer is still on the map.
C18_ApologyWithoutAlternativeLayer ==
    RerouteRaised =>
        /\ mag_printed = <<RegularMessage, SorryMessage>>
        /\ AlternativeMessage \notin Range(mag_printed)
        /\ map_layers = <<"Regular Route">>

\* A request of the loop raised, after the regular route and a first
\* alternative had been returned.
C18_Witness ==
    /\ RerouteRaised
    /\ Len(mag_requests) = 3
    /\ Len(avoided_point_list) = 2
    /\ ~route_directions.none

\* The nodes the graph leads to from a node, itself included.
ReachedFrom(node) ==
    LET More(found) == found \cup {edge[2] : edge \in {e \in ors_graph : e[1] \in found}}
    IN More(More(More({node})))

\* The pairs (hospital row, start row) the loops have passed.
PairsPassed ==
    {pair \in (1..Len(hospitals_df)) \X (1..Len(hc_start_points)) :
        \/ pair[1] < h_idx
        \/ pair[1] = h_idx /\ s_idx # 0 /\ pair[2] < s_idx}

\* The edges (u, v) that a recorded route uses.
EdgesUsed ==
    {<<row[1], row[2]>> : row \in UNION {Range(hc_routes[k]) : k \in 1..Len(hc_routes)}}

\* C19: a pair (hospital, start point) the loops have passed has its route
\* in routes if and only if the graph leads from the start's node to the
\* hospital's node over at least one edge, and nothing is printed for a pair;
\* once the centrality is computed, every edge used by a recorded route has a
\* route_count that is at least 1 and at most the maximum, its centrality is
\* route_count over that maximum, and for one edge the two are equal.
C19_RoutesRecordedAndCentrality ==
    (nb = "healthcare_centrality") =>
        /\ \A pair \in PairsPassed :
              pair \in hc_recorded <=>
                  /\ hospitals_df[pair[1]] \in ReachedFrom(hc_start_points[pair[2]])
                  /\ hospitals_df[pair[1]] # hc_start_points[pair[2]]
        /\ Len(hc_routes) = Cardinality(hc_recorded)
        /\ \A k \in 1..Len(hc_printed) : hc_printed[k][1] = "hospital"
        /\ hc_pc = "done" =>
              /\ \A edge \in EdgesUsed :
                    /\ edge \in DOMAIN edges_df
                    /\ ~edges_df[edge].nan
                    /\ edges_df[edge].centrality.num = edges_df[edge].route_count
                    /\ edges_df[edge].centrality.num > 0
                    /\ edges_df[edge].centrality.num <= edges_df[edge].centrality.den
              /\ \E edge \in EdgesUsed :
                    edges_df[edge].centrality.num = edges_df[edge].centrality.den
              /\ \A edge \in DOMAIN edges_df \ EdgesUsed : edges_df[edge].nan

\* The centrality is computed after a pair was skipped and routes were
\* recorded that leave one edge below the maximum.
C19_Witness ==
    /\ nb = "healthcare_centrality"
    /\ hc_pc = "done"
    /\ PairsPassed \ hc_recorded # {}
    /\ \E edge \in EdgesUsed :
          edges_df[edge].centrality.num < edges_df[edge].centrality.den

(***************************************************************************)
(* The specification.                                                      *)
(***************************************************************************)
\* Every notebook at its first cell.
FirstCells ==
    /\ MadInit
    /\ AhrInit
    /\ IsoInit
    /\ MagInit
    /\ PeakInit
    /\ IdaiInit
    /\ NoisyInit
    /\ AccInit
    /\ AptInit
    /\ PubInit
    /\ ExpInit
    /\ HcInit

Init ==
    /\ nb \in Notebooks
    /\ FirstCells

MadNext ==
    \/ CarIteration
    \/ CarLoopEnd
    \/ FootIteration
    \/ FootLoopEnd

AhrNext ==
    \/ AhrNormalRaises
    \/ AhrBothRoutes
    \/ AhrFloodApiError
    \/ AhrFloodOtherRaises
    \/ AhrLoopEnd

IsoNext ==
    \/ IsoFirstIteration
    \/ IsoFirstLoopEnd
    \/ IsoSecondNormalRaises
    \/ IsoSecondFloodRaises
    \/ IsoSecondBoth
    \/ IsoSecondLoopEnd

MagNext ==
    \/ MagRegularRoute
    \/ MagRegularRaises
    \/ MagTweetNotWithin
    \/ MagTweetReroute
    \/ MagRerouteRaises
    \/ MagLoopEnd

PeakNext ==
    \/ PeakRoutes
    \/ PeakRequestRaises
    \/ PeakRoutingEnd
    \/ PeakDisplay
    \/ PeakDisplayIndexError
    \/ PeakScreenshot
    \/ PeakScreenshotEnd
    \/ PeakResize
    \/ PeakResizeEnd

IdaiNext ==
    \/ IdaiDefineVehicle
    \/ IdaiOptimization
    \/ IdaiStations
    \/ IdaiStationsEnd
    \/ IdaiVehicleTable
    \/ IdaiVehicleTableIndexError

NoisyNext ==
    \/ NoisyRegularRoute
    \/ NoisyRegularRaises
    \/ NoisyAvoidanceRoute
    \/ NoisyAvoidanceRaises
    \/ NoisyCompareNameError
    \/ NoisyCompareEqual
    \/ NoisyCompareDiffers
    \/ NoisyCompareEmptyString

AccNext ==
    \/ AccPopulationCount
    \/ AccPopulationEnd
    \/ AccCarElement
    \/ AccCarEnd
    \/ AccFootElement
    \/ AccFootEnd

PubNext ==
    \/ PubAddress
    \/ PubAddressRaises
    \/ PubAddressesEnd
    \/ PubMatrix
    \/ PubMatrixRaises
    \/ PubSolve
    \/ PubExtract
    \/ PubExtractEnd

ExpNext ==
    \/ ExpAddEdge
    \/ ExpEdgesEnd
    \/ ExpDrawLine
    \/ ExpLineMapEnd
    \/ ExpGraph
    \/ ExpFirstMap
    \/ ExpRemoveBridges
    \/ ExpSecondMap

HcNext ==
    \/ HcHospital
    \/ HcNoPath
    \/ HcNoEdges
    \/ HcRouteAppended
    \/ HcStartsEnd
    \/ HcCentrality

Next ==
    \/ MadNext
    \/ AhrNext
    \/ IsoNext
    \/ MagNext
    \/ PeakNext
    \/ IdaiNext
    \/ NoisyNext
    \/ AccNext
    \/ PubNext
    \/ ExpNext
    \/ HcNext

Spec == Init /\ [][Next]_vars

\* The apartment search, whose states are the product of the POI lists of
\* its apartments and categories, is a specification of its own.
AptNext ==
    \/ AptPlaces
    \/ AptPlacesRaises
    \/ AptRemoveSecond
    \/ AptRoute
    \/ AptRouteRaises
    \/ AptNextCategory
    \/ AptRoutesEnd
    \/ AptShortestSum
    \/ AptSumEnd

AptSearchInit ==
    /\ nb = "apartment_search"
    /\ FirstCells

SpecApartmentSearch == AptSearchInit /\ [][AptNext]_vars

(***************************************************************************)
(* The claims.                                                             *)
(***************************************************************************)

\* C1: in the Madagascar car and foot loops, at most 39 isochrone requests
\* are sent between two consecutive 60-second sleeps, and before the first
\* sleep of a loop, whatever the number of facilities and whichever requests
\* fail.
C1_AtMost39BetweenSleeps ==
    /\ since_sleep <= SleepEvery
    /\ last_window <= SleepEvery

\* C2: in the Ahr valley routing loop, a place whose after-flood request
\* raised ApiError has its message 'No route found for <name>' printed, is in
\* neither normal_routes nor avoiding_routes, and the loop has gone on past
\* it (an ApiError of the after-flood request never ends the cell); the places
\* are visited in order, each one once, none before its turn, and the loop
\* ends only after it has visited them all.
C2_ApiErrorSkipsPlace ==
    /\ \A p \in flood_failed :
          /\ \E k \in 1..Len(ahr_printed) : ahr_printed[k] = NoRouteMessage(p)
          /\ p \notin Range(normal_routes)
          /\ p \notin Range(avoiding_routes)
          /\ place_idx > p
    /\ Len(ahr_printed) = Cardinality(flood_failed)
    /\ \A p \in 1..MaxPlaces :
          ahr_requests["normal"][p] =
              IF p < place_idx \/ (p = place_idx /\ ahr_pc = "aborted") THEN 1 ELSE 0
    /\ ahr_pc = "done" => place_idx = num_places + 1

\* C2's case: the loop has ended, a place was skipped on ApiError and the
\* place after it got both of its routes.
C2_Witness ==
    /\ nb = "ahr_routing"
    /\ ahr_pc = "done"
    /\ \E p \in flood_failed : p + 1 \in Range(avoiding_routes)

\* C3: the notebooks' own code never repeats a request: in the Ahr valley
\* routing loop every place gets at most one request per scenario, and in
\* the Madagascar loops every facility gets at most one request per profile,
\* failed or not.
C3_NoRetry ==
    /\ \A s \in Scenarios : \A p \in 1..MaxPlaces : ahr_requests[s][p] <= 1
    /\ \A pr \in Profiles : \A f \in 1..MaxFacilities : mad_requests[pr][f] <= 1

\* C3's case: both Madagascar loops have run to their end over several
\* facilities and some request failed on the way.
C3_Witness ==
    /\ nb = "madagascar"
    /\ mad_pc = "done"
    /\ mad_failures > 0
    /\ num_facilities > 1
    /\ request_counter < num_facilities

\* A physician loop has ended when its cell is left, at the end of its range
\* or by an exception; it has ended early when a request raised, which no
\* loop can help.
LoopEnded(l) ==
    /\ l \in iso_entered
    /\ \/ iso_pc \in {"done", "aborted"}
       \/ l = "first" /\ iso_pc = "second"

\* C6: in both physician loops of the Ahr valley isochrone notebook the
\* physicians are sent in consecutive groups of 5: the k-th request of a
\* scenario carries the physicians 5(k-1)+1 .. min(5k, n) and nothing else
\* (so between 1 and 5 locations, and no physician twice), and a loop that
\* has ended without a request raising has sent ceil(n / 5) requests per
\* scenario, which together carry every physician exactly once.
C6_GroupsOfFive ==
    \A l \in Loops : \A s \in Scenarios :
        LET reqs == iso_requests[l][s]
            n == Len(physicians)
        IN /\ \A k \in 1..Len(reqs) :
                 /\ Len(reqs[k]) >= 1
                 /\ Len(reqs[k]) <= 5
                 /\ reqs[k] = [j \in 1..(Min(5 * k, n) - 5 * (k - 1)) |-> 5 * (k - 1) + j]
           /\ (nb = "ahr_isochrones" /\ LoopEnded(l) /\ iso_uncaught # "RequestError") =>
                 /\ Len(reqs) = (n + 4) \div 5
                 /\ \A ph \in 1..n :
                       Cardinality({k \in 1..Len(reqs) : ph \in Range(reqs[k])}) = 1

\* C7: in the first physician loop, when the after-flood request of a batch
\* raises ApiError, a message is printed, the batch is skipped (no after-flood
\* isochrones are kept for it) and the loop goes on with the next batch; no
\* exception of the loop's own making ends it, so that it runs until all
\* batches are processed.
C7_ApiErrorSkipsBatch ==
    /\ \A b \in iso_flood_failed :
          /\ \E k \in 1..Len(iso_printed) : iso_printed[k][2] = b
          /\ Len(avoiding_isochrones) < Len(normal_isochrones)
          /\ start > b
    /\ (nb = "ahr_isochrones" /\ LoopEnded("first") /\ iso_uncaught # "RequestError") =>
          Len(iso_requests["first"]["flood"]) = (Len(physicians) + 4) \div 5

\* The first loop, as the notebook stands, never sends a request: its first
\* statement that reads ors raises.
FirstLoopSendsNothing ==
    \A s \in Scenarios : iso_requests["first"][s] = <<>>

\* The second loop on its own groups the physicians as C6 says.
SecondLoopGroupsOfFive ==
    \A s \in Scenarios :
        LET reqs == iso_requests["second"][s]
            n == Len(physicians)
        IN /\ \A k \in 1..Len(reqs) :
                 reqs[k] = [j \in 1..(Min(5 * k, n) - 5 * (k - 1)) |-> 5 * (k - 1) + j]
           /\ iso_pc = "done" => Len(reqs) = (n + 4) \div 5

\* C4: in the Magdeburg notebook, whenever 'Generated alternative route,
\* which avoids affected areas.' is printed, the buffer of the final route
\* contains or intersects none of the flood-tweet polygons.
C4_FinalRouteClearOfTweets ==
    AlternativeMessage \in Range(mag_printed) =>
        \A t \in flood_tweets : ~Intersects(t, CreateBuffer(route_directions))

\* C5: in the Magdeburg re-routing loop, every flood-tweet polygon that
\* intersects the buffer of the route current when the tweet is examined is
\* appended to avoided_point_list, and a new route is requested with every
\* extended list.
C5_IntersectingTweetsAvoided ==
    /\ mag_intersected \subseteq Range(avoided_point_list)
    /\ \A k \in 1..Len(avoided_point_list) :
          SubSeq(avoided_point_list, 1, k) \in Range(mag_requests)

\* C8: in the peak routing notebook, once the routing loop has ended, for
\* i in 0..2 the entry maps[i] exists and holds the map and the route
\* summaries of the peak named peak_names[i], whatever peaks the Overpass
\* query returned and in whatever order.
C8_MapsFollowPeakNames ==
    peak_pc \in {"display", "screenshot", "resize", "done"} =>
        \A i \in 1..Len(peak_names) :
            /\ i <= Len(maps)
            /\ maps[i] = MapEntry(peak_names[i])

\* C9: in the peak routing notebook, for every name in peak_names, the file
\* maps/<name>.html has been written by the routing loop before the
\* screenshot loop loads it, the PNG has been saved before it is opened for
\* resizing, and the _small PNG is written after all of these and is the last
\* thing done with the name's files; when the notebook has ended, all three
\* files of every name are there.
C9_FilesInOrder ==
    /\ \A k \in 1..Len(file_log) :
          LET e == file_log[k]
              Before(op, kind) ==
                  \E j \in 1..(k - 1) : file_log[j] = <<op, kind, e[3]>>
          IN /\ e[3] \in Range(peak_names)
             /\ (e[1] = "read" /\ e[2] = "html") => Before("write", "html")
             /\ (e[1] = "read" /\ e[2] = "png") =>
                   Before("write", "png") /\ Before("read", "html")
             /\ (e[1] = "write" /\ e[2] = "small") =>
                   /\ Before("write", "html")
                   /\ Before("write", "png")
                   /\ Before("read", "png")
                   /\ \A j \in (k + 1)..Len(file_log) : file_log[j][3] # e[3]
    /\ peak_pc = "done" =>
          \A n \in Range(peak_names) :
              {<<"html", n>>, <<"png", n>>, <<"small", n>>} \subseteq files

\* C9's case: the notebook has run to its end: every map was written,
\* loaded, captured, opened and resized.
C9_Witness ==
    /\ nb = "peaks"
    /\ peak_pc = "done"
    /\ Len(file_log) = 5 * Len(peak_names)
    /\ <<"small", peak_names[3]>> \in files

\* C10: in the Idai notebook, for k in 0..2 the list stations[k], shown
\* under the heading 'Vehicle k', is the step list of the route whose
\* 'vehicle' field equals k, for any optimization response: no heading is
\* left without its list, and no list stands under another vehicle's heading.
C10_TablesFollowVehicles ==
    /\ idai_uncaught # "IndexError"
    /\ \A t \in 1..Len(vehicle_tables) :
          \E r \in 1..Len(result.routes) :
              /\ result.routes[r].vehicle = vehicle_tables[t].heading
              /\ vehicle_tables[t].rows = VehicleStations(result.routes[r])

\* Hour and minute of the day of a POSIX timestamp.
HourOfDay(t) == (t % 86400) \div 3600
MinuteOfHour(t) == (t % 3600) \div 60

\* C11: in the Idai optimization request, each of the three vehicles has its
\* start and its end set to the depot in Beira's port (as [lon, lat]), the
\* capacity [300] and the time window 08:00 to 20:00.
C11_VehiclesStartAndEndAtDepot ==
    idai_request # <<>> =>
        /\ Len(idai_request) = 3
        /\ \A k \in 1..Len(idai_request) :
              LET v == idai_request[k]
              IN /\ v.start = Reversed(depot)
                 /\ v.end = Reversed(depot)
                 /\ v.capacity = <<300>>
                 /\ HourOfDay(v.time_window[1]) = 8
                 /\ MinuteOfHour(v.time_window[1]) = 0
                 /\ HourOfDay(v.time_window[2]) = 20
                 /\ MinuteOfHour(v.time_window[2]) = 0

\* What the request does carry: three vehicles with ids 0, 1, 2 that start at
\* the depot, with capacity [300] and the window 08:00 to 20:00, and no end.
VehiclesWithoutEnd ==
    idai_request # <<>> =>
        /\ Len(idai_request) = 3
        /\ \A k \in 1..Len(idai_request) :
              LET v == idai_request[k]
              IN /\ v.id = k - 1
                 /\ v.start = Reversed(depot)
                 /\ v.end = None
                 /\ v.capacity = <<300>>
                 /\ HourOfDay(v.time_window[1]) = 8
                 /\ HourOfDay(v.time_window[2]) = 20

NoisyLayerNames == {noisy_layers[k].name : k \in 1..Len(noisy_layers)}

\* C12: in the noisy-areas notebook the 'Alternative Route' layer is added
\* and 'Generated alternative route, which avoids affected areas.' is printed
\* only when the avoidance request returned a route and that route differs
\* from the regular route; when the avoidance request failed, the cell ends
\* with the error printed and nothing else: no alternative route layer, no
\* message, no exception.
C12_AlternativeOnlyForAnotherRoute ==
    /\ ("Alternative Route" \in NoisyLayerNames \/ AlternativeMessageNoisy \in Range(noisy_printed)) =>
          /\ "avoidance" \notin noisy_failed
          /\ avoidance_route \in NoisyRoutes
          /\ optimal_route \in NoisyRoutes
          /\ avoidance_route # optimal_route
    /\ "avoidance" \in noisy_failed =>
          /\ ErrorMessage("avoidance") \in Range(noisy_printed)
          /\ "Alternative Route" \notin NoisyLayerNames
          /\ AlternativeMessageNoisy \notin Range(noisy_printed)
          /\ noisy_uncaught = "none"

\* When both requests return, the cell does as C12 says.
BothRoutesReturned ==
    (noisy_failed = {} /\ noisy_pc = "done") =>
        ("Alternative Route" \in NoisyLayerNames <=> avoidance_route # optimal_route)

\* The two fields of a district's record for a profile agree with the pieces
\* read for it: the population with access is their sum, and the percentage
\* is 100 times that over the population count (where the count is not 0,
\* so that the quotient is defined).
AccessAgrees(p, pct, dt) ==
    LET record == districts_dictionary[dt]
    IN /\ record[p] = pieces_read[p][dt]
       /\ record.count # 0 =>
             record[pct].num * record.count = 100 * record[p] * record[pct].den

Least(xs) == CHOOSE m \in Range(xs) : \A x \in Range(xs) : m <= x

\* C14: in the apartment search, for every apartment that remains after the
\* removal step shortest_sum is computed without failure (min never meets an
\* empty list) and equals the sum over the three POI categories of the least
\* route duration among the category's POIs; durations holds one entry per
\* POI of the category.
C14_ShortestSumOfRemainingApartments ==
    /\ apt_uncaught # "ValueError"
    /\ apt_pc \in {"sum", "done"} =>
          \A name \in DOMAIN apartments : \A k \in 1..Len(apartments[name]) :
              Len(apartments[name][k].durations) = Len(apartments[name][k].geojson)
    /\ \A name \in DOMAIN shortest_sum :
          /\ Len(apartments[name]) = 3
          /\ shortest_sum[name] =
                Least(apartments[name][1].durations)
                + Least(apartments[name][2].durations)
                + Least(apartments[name][3].durations)
    /\ apt_pc = "done" => DOMAIN shortest_sum = DOMAIN apartments

\* Apart from the failure of min on an empty list, the sums are as C14 says.
SumsOfTheApartmentsSummed ==
    /\ apt_pc \in {"sum", "done"} =>
          \A name \in DOMAIN apartments : \A k \in 1..Len(apartments[name]) :
              Len(apartments[name][k].durations) = Len(apartments[name][k].geojson)
    /\ \A name \in DOMAIN shortest_sum :
          shortest_sum[name] =
              Least(apartments[name][1].durations)
              + Least(apartments[name][2].durations)
              + Least(apartments[name][3].durations)
    /\ apt_pc = "done" => DOMAIN shortest_sum = DOMAIN apartments

\* The node whose coordinates stand at place k of optimal_coords.
NodeAt(k) == CHOOSE node \in 0..(Len(pubs_coords) - 1) : At(pubs_coords, node) = optimal_coords[k]

\* C15: in the pub crawl notebook, when the solver has returned an assignment
\* and its route is extracted, optimal_coords has tsp_size + 1 entries, its
\* first and its last entry are the coordinates of the start pub (index 0),
\* and its first tsp_size entries hold every pub once, each entry after the
\* first being the solver's successor of the entry before it.
C15_OptimalCoordsFollowTheAssignment ==
    (nb = "pubcrawl" /\ pub_pc = "done" /\ assignment.found) =>
        LET tsp_size == Len(pubs_addresses)
        IN /\ Len(optimal_coords) = tsp_size + 1
           /\ optimal_coords[1] = At(pubs_coords, 0)
           /\ optimal_coords[tsp_size + 1] = At(pubs_coords, 0)
           /\ \A node \in 0..(tsp_size - 1) :
                 Cardinality({k \in 1..tsp_size : optimal_coords[k] = At(pubs_coords, node)}) = 1
           /\ \A k \in 1..(tsp_size - 1) :
                 NodeAt(k + 1) = assignment.next[NodeAt(k)]
           /\ assignment.next[NodeAt(tsp_size)] = tsp_size

\* C15 witness: a route of four pubs is extracted whose order is not that of
\* the response.
C15_Witness ==
    /\ nb = "pubcrawl"
    /\ pub_pc = "done"
    /\ assignment.found
    /\ Len(optimal_coords) = 5
    /\ optimal_coords[2] = At(pubs_coords, 3)
    /\ optimal_coords[3] = At(pubs_coords, 1)

=============================================================================
